---- MODULE Spec2Model ----
(***************************************************************************)
(* Draw-and-Guess server: the room/game state machine of                   *)
(* src/server/game/__init__.py (GameRoom) and the session/routing layer of *)
(* src/server/network/__init__.py (NetworkServer).                         *)
(*                                                                         *)
(* Three specifications share the variables:                               *)
(*   SpecRoom  the GameRoom API called sequentially by one caller;         *)
(*   SpecNet   NetworkServer with every message handler run to completion  *)
(*             before the next one starts;                                 *)
(*   SpecRace  NetworkServer session threads whose join_room and guess     *)
(*             handlers interleave at the statements of add_player and     *)
(*             submit_guess (the code takes no lock).                      *)
(*                                                                         *)
(* Randomness (random.shuffle, random.choice) and the wall clock           *)
(* (time.time) are inputs of the operations, drawn with \E.                *)
(***************************************************************************)
EXTENDS Integers, Sequences, FiniteSets, TLC

\* Python's None for the optional string fields (player ids are strings).
None == "None"

\* ------------------------------------------------------------------------
\* Bounds of the model
\* ------------------------------------------------------------------------
\* A guess is accepted in the model only while every score stays <= MaxScore.
MaxScore == 3
\* next_round is taken in the model only while rounds_played < MaxRounds.
MaxRounds == 1
\* SpecNet accepts at most MaxConns connections.
MaxConns == 2

\* The player ids clients may supply, and the names.
PlayerIds == {"p1", "p2", "p3"}
Names == {"A"}

\* Texts are sequences of characters.  The guess texts clients send and the
\* word list the room loaded.
Space == " "
Texts == {<<Space, "A">>, <<"b">>}
words == {<<"a">>}
\* RoundState.word is Optional[str]: None is kept apart from every text.
NoneWord == <<"None">>

\* ------------------------------------------------------------------------
\* Constants of src/shared/constants.py (that file is not part of the
\* sources at hand; the values are the ones the specification names).
\* ------------------------------------------------------------------------
MIN_PLAYERS == 2
DRAW_TIME == 60
\* MAX_PLAYERS is not given a value anywhere: it is fixed by Init to one
\* of these and never changes.
MaxPlayersChoices == {2, 3}

\* The readings of the clock the model tries: the seconds left at the ends
\* of the four scoring tiers of a DRAW_TIME round.
LeftChoices ==
    {0, 1, (4 * DRAW_TIME) \div 10 - 1, (4 * DRAW_TIME) \div 10,
     (7 * DRAW_TIME) \div 10 - 1, (7 * DRAW_TIME) \div 10, DRAW_TIME}

\* The clock readings of the guesses that session threads handle: the
\* guesses arrive as the round starts.
RaceLeft == {DRAW_TIME}

VARIABLES
    MAX_PLAYERS,  \* the configured capacity (constant along a behaviour)
    room,         \* GameRoom: state (GameState) and _drawer_cycle
    added,        \* ids whose last successful add_player was not followed by remove_player
    drawn,        \* drawers chosen by start_round since the membership last changed
    round_solved, \* a correct guess was accepted in the current round
    sess,         \* the ClientSession objects: conn, fd, player_id, player_name, room_id
    sessions,     \* NetworkServer.sessions: file descriptor -> session
    peer,         \* the client end of each connection: "up" or "gone"
    pc,           \* where each session thread stands
    local,        \* the local variables of the handler a session thread is in
    joined,       \* per session: the ids it joined under and has not left since
    reply,        \* per session: the last ack / guess_result written to it
    outbox,       \* per observed session: the kinds of message the last handler wrote to it
    sent,         \* per session: the bytes its client has written so far
    wire,         \* per session: the bytes written by the client and not yet read
    buf,          \* per session: ClientSession._recv_buffer
    handed,       \* per session: the frames passed to _handle_raw_message so far
    running,      \* NetworkServer._running
    listener,     \* NetworkServer._sock: "open" or "closed"
    apc,          \* where the accept thread stands
    spc,          \* where the caller of stop() stands
    todo,         \* the sessions stop() has still to close (its copy of the registry)
    lroom,        \* the legacy Room object (server/models/room.py)
    lplayers,     \* the legacy Player objects, by id: score, room_id, is_drawing
    nstart,       \* how the last call of NetworkServer.start ended: "none", "raised", "returned"
    gserver,      \* the legacy GameServer: running, socket, accept thread, what start returned
    out,          \* per server variant: the bytes written to one client socket
    rooms,        \* ChatServer.rooms: room id -> the connections registered in it
    handler,      \* ChatServer._handle_client, per connection: where it stands, its room_id
    gplayers,     \* the legacy GameServer.players: player id -> the connection it was made for
    default_room, \* the legacy GameServer.default_room.players (the ids)
    client        \* GameServer._handle_client, per connection: where it stands, its player_id

ghostVars == <<added, drawn, round_solved>>
netVars == <<sess, sessions, peer, pc, local, joined, reply, outbox>>
frameVars == <<sent, wire, buf, handed>>
stopVars == <<running, listener, apc, spc, todo>>
legacyVars == <<lroom, lplayers>>
serverVars == <<nstart, gserver, out>>
chatVars == <<rooms, handler>>
gameVars == <<gplayers, default_room, client>>
vars == <<MAX_PLAYERS, room, added, drawn, round_solved,
          sess, sessions, peer, pc, local, joined, reply, outbox,
          sent, wire, buf, handed, running, listener, apc, spc, todo,
          lroom, lplayers, nstart, gserver, out,
          rooms, handler, gplayers, default_room, client>>

\* ------------------------------------------------------------------------
\* Helpers
\* ------------------------------------------------------------------------
Range(s) == {s[i] : i \in DOMAIN s}

\* All orderings of the finite set S (the outcomes of random.shuffle).
Orders(S) == {s \in [1..Cardinality(S) -> S] : Range(s) = S}

\* dict insertion / deletion
Put(d, k, v) == [x \in DOMAIN d \cup {k} |-> IF x = k THEN v ELSE d[x]]
Del(d, k) == [x \in DOMAIN d \ {k} |-> d[x]]

\* The (room, return value) pair an operation yields.
Res(R, r) == [room |-> R, ret |-> r]

\* ------------------------------------------------------------------------
\* Data classes
\* ------------------------------------------------------------------------
PlayerState(name) == [name |-> name, score |-> 0, is_connected |-> TRUE]

RoundState0 ==
    [round_index |-> 0, drawer_id |-> None, word |-> NoneWord, start_ts |-> None,
     guesses |-> <<>>, solved_by |-> None, is_active |-> FALSE]

GameState0 ==
    [players |-> <<>>, current_round |-> RoundState0,
     is_started |-> FALSE, rounds_played |-> 0]

\* GameRoom.__init__
GameRoom0 ==
    [players |-> <<>>, current_round |-> RoundState0,
     is_started |-> FALSE, rounds_played |-> 0, drawer_cycle |-> <<>>]

\* RoundState.time_left; `left` is max(0, int(start_ts + DRAW_TIME - time.time()))
\* as the clock gives it at the moment of the call.
time_left(rnd, left) ==
    IF ~rnd.is_active \/ rnd.start_ts = None THEN 0 ELSE left

\* ------------------------------------------------------------------------
\* GameRoom: internal methods
\* ------------------------------------------------------------------------
\* `order` is the outcome of random.shuffle: an ordering of the ids present.
_rebuild_drawer_cycle(R, order) ==
    [R EXCEPT !.drawer_cycle = SelectSeq(order, LAMBDA p : p \in DOMAIN R.players)]

_finish_round(R) == [R EXCEPT !.current_round.is_active = FALSE]

_force_end_round(R) ==
    [R EXCEPT !.current_round.is_active = FALSE, !.current_round.solved_by = None]

\* str.lower and str.strip on the characters of the model
Lower(c) == CASE c = "A" -> "a" [] c = "B" -> "b" [] OTHER -> c
IsSpace(c) == c = Space

RECURSIVE LStrip(_)
LStrip(t) == IF t # <<>> /\ IsSpace(Head(t)) THEN LStrip(Tail(t)) ELSE t

RECURSIVE RStrip(_)
RStrip(t) ==
    IF t # <<>> /\ IsSpace(t[Len(t)]) THEN RStrip(SubSeq(t, 1, Len(t) - 1)) ELSE t

\* Mutant of _normalize: the case is not folded.
_normalize_case_sensitive(text) ==
    LET t == IF text = NoneWord THEN <<>> ELSE text
    IN  RStrip(LStrip(t))

_normalize(text) ==
    LET t == IF text = NoneWord THEN <<>> ELSE text
        s == RStrip(LStrip(t))
    IN  [i \in 1..Len(s) |-> Lower(s[i])]

\* A scoring whose tier bounds are exclusive (a variant used to test C11).
_score_for_first_solver_exclusive(rnd, left) ==
    LET l == time_left(rnd, left)
    IN  IF 10 * l > 7 * DRAW_TIME THEN 10
        ELSE IF 10 * l > 4 * DRAW_TIME THEN 7
        ELSE IF l > 0 THEN 5
        ELSE 3

_score_for_first_solver(rnd, left) ==
    LET l == time_left(rnd, left)
    IN  IF 10 * l >= 7 * DRAW_TIME THEN 10
        ELSE IF 10 * l >= 4 * DRAW_TIME THEN 7
        ELSE IF l > 0 THEN 5
        ELSE 3

\* Mutant of _next_drawer: the popped id is not appended again.
_next_drawer_no_append(R) ==
    IF R.drawer_cycle = <<>> THEN Res(R, None)
    ELSE Res([R EXCEPT !.drawer_cycle = Tail(R.drawer_cycle)], Head(R.drawer_cycle))

\* Pops the head of the cycle and appends it: [room, ret] with ret the drawer.
_next_drawer(R) ==
    IF R.drawer_cycle = <<>> THEN Res(R, None)
    ELSE LET pid == Head(R.drawer_cycle)
         IN  Res([R EXCEPT !.drawer_cycle = Append(Tail(R.drawer_cycle), pid)], pid)

\* ------------------------------------------------------------------------
\* GameRoom: public methods.  Each yields Res(room after, return value).
\* ------------------------------------------------------------------------
\* Mutant of add_player: the capacity check is missing.
add_player_no_capacity(R, player_id, name, order) ==
    IF player_id \in DOMAIN R.players THEN Res(R, FALSE)
    ELSE Res(_rebuild_drawer_cycle(
                [R EXCEPT !.players = Put(R.players, player_id, PlayerState(name))],
                order), TRUE)

\* Mutant of add_player: the membership check is missing, so that a second
\* add of an id replaces its PlayerState.
add_player_overwrite(R, player_id, name, order) ==
    IF Cardinality(DOMAIN R.players \ {player_id}) >= MAX_PLAYERS THEN Res(R, FALSE)
    ELSE Res(_rebuild_drawer_cycle(
                [R EXCEPT !.players = Put(R.players, player_id, PlayerState(name))],
                order), TRUE)

add_player(R, player_id, name, order) ==
    IF player_id \in DOMAIN R.players THEN Res(R, FALSE)
    ELSE IF Cardinality(DOMAIN R.players) >= MAX_PLAYERS THEN Res(R, FALSE)
    ELSE Res(_rebuild_drawer_cycle(
                [R EXCEPT !.players = Put(R.players, player_id, PlayerState(name))],
                order), TRUE)

\* Mutant of remove_player: the round is ended whoever leaves.
remove_player_ends_round(R, player_id, order) ==
    IF player_id \in DOMAIN R.players
    THEN Res(_force_end_round(_rebuild_drawer_cycle(
                [R EXCEPT !.players = Del(R.players, player_id)], order)), None)
    ELSE Res(R, None)

remove_player(R, player_id, order) ==
    IF player_id \in DOMAIN R.players
    THEN LET R1 == _rebuild_drawer_cycle(
                      [R EXCEPT !.players = Del(R.players, player_id)], order)
         IN  IF R1.current_round.drawer_id = player_id
             THEN Res(_force_end_round(R1), None)
             ELSE Res(R1, None)
    ELSE Res(R, None)

\* `word` is the outcome of _pick_word (random.choice of the word list).
start_round(R, order, word) ==
    IF ~R.is_started THEN Res(R, FALSE)
    ELSE LET R1 == IF R.drawer_cycle = <<>> THEN _rebuild_drawer_cycle(R, order) ELSE R
             nd == _next_drawer(R1)
         IN  Res([nd.room EXCEPT !.current_round =
                     [round_index |-> R.rounds_played + 1,
                      drawer_id |-> nd.ret,
                      word |-> word,
                      start_ts |-> "ts",
                      guesses |-> <<>>,
                      solved_by |-> None,
                      is_active |-> TRUE]], TRUE)

\* Mutant of start_game: the number of players is not checked.
start_game_any_players(R, order, word) ==
    IF R.is_started THEN Res(R, FALSE)
    ELSE start_round([R EXCEPT !.is_started = TRUE, !.rounds_played = 0], order, word)

start_game(R, order, word) ==
    IF R.is_started THEN Res(R, FALSE)
    ELSE IF Cardinality(DOMAIN R.players) < MIN_PLAYERS THEN Res(R, FALSE)
    ELSE start_round([R EXCEPT !.is_started = TRUE, !.rounds_played = 0], order, word)

\* Mutant of GuessRejected: only the guesser is checked, not the round.
GuessRejected_guesser_only(R, player_id) ==
    \/ player_id = R.current_round.drawer_id
    \/ player_id \notin DOMAIN R.players

\* Mutant of GuessRejected: the drawer is not turned away.
GuessRejected_drawer_allowed(R, player_id) ==
    \/ ~R.current_round.is_active
    \/ player_id \notin DOMAIN R.players
    \/ R.current_round.solved_by # None

\* Mutant of GuessRejected: a guess on an inactive round is not turned away.
GuessRejected_inactive_allowed(R, player_id) ==
    \/ player_id = R.current_round.drawer_id
    \/ player_id \notin DOMAIN R.players
    \/ R.current_round.solved_by # None

\* The four early returns of submit_guess.
GuessRejected(R, player_id) ==
    \/ ~R.current_round.is_active
    \/ player_id = R.current_round.drawer_id
    \/ player_id \notin DOMAIN R.players
    \/ R.current_round.solved_by # None

submit_guess(R, player_id, guess_text, left) ==
    LET rnd == R.current_round
    IN  IF GuessRejected(R, player_id) THEN Res(R, <<FALSE, 0>>)
        ELSE LET R1 == [R EXCEPT !.current_round.guesses = Put(rnd.guesses, player_id, guess_text)]
             IN  IF _normalize(guess_text) = _normalize(rnd.word)
                 THEN LET gained == _score_for_first_solver(rnd, left)
                          R2 == [R1 EXCEPT !.current_round.solved_by = player_id,
                                           !.players[player_id].score = @ + gained]
                          R3 == IF rnd.drawer_id # None /\ rnd.drawer_id \in DOMAIN R2.players
                                THEN [R2 EXCEPT !.players[rnd.drawer_id].score = @ + (gained \div 2)]
                                ELSE R2
                      IN  Res(_finish_round(R3), <<TRUE, gained>>)
                 ELSE Res(R1, <<FALSE, 0>>)

next_round(R, order, word) ==
    IF ~R.is_started THEN Res(R, FALSE)
    ELSE start_round([R EXCEPT !.rounds_played = @ + 1], order, word)

\* Mutant of end_game: the round is not ended.
end_game_flag_only(R) == Res([R EXCEPT !.is_started = FALSE], None)

end_game(R) == Res(_force_end_round([R EXCEPT !.is_started = FALSE]), None)

reset_room(R) == Res(GameRoom0, None)

\* A snapshot that carries the word (a variant used to test C12).
get_public_state_with_word(R, left) ==
    [room_id |-> "default",
     is_started |-> R.is_started,
     round_index |-> R.current_round.round_index,
     drawer_id |-> R.current_round.drawer_id,
     time_left |-> time_left(R.current_round, left),
     players |-> [p \in DOMAIN R.players |->
                     [name |-> R.players[p].name, score |-> R.players[p].score]],
     solved |-> R.current_round.solved_by # None,
     word |-> R.current_round.word]

get_public_state(R, left) ==
    [room_id |-> "default",
     is_started |-> R.is_started,
     round_index |-> R.current_round.round_index,
     drawer_id |-> R.current_round.drawer_id,
     time_left |-> time_left(R.current_round, left),
     players |-> [p \in DOMAIN R.players |->
                     [name |-> R.players[p].name, score |-> R.players[p].score]],
     solved |-> R.current_round.solved_by # None]

\* ------------------------------------------------------------------------
\* NetworkServer: sessions and the session registry
\* ------------------------------------------------------------------------
\* The connections a run may accept, in the order they are tried.
SessionSeq == <<"s1", "s2", "s3">>
Sessions == Range(SessionSeq)
\* File descriptor numbers the accepted sockets may get.
Fds == 1..Len(SessionSeq)
\* The player ids and names clients put into connect; None: the key is absent.
ClientIds == {"p1"}
ClientNames == {"A"}
\* The payloads of MSG_CONNECT that are tried: both fields given, or neither.
ConnectData == (ClientIds \X ClientNames) \cup {<<None, None>>}
\* The peer address of a connection, (host, port): the clients share a host.
addr(s) == <<"h", s>>
DefaultName(s) == <<"Player-", addr(s)[2]>>
\* The player id of its own that the client of session s supplies.
OwnId(s) == CHOOSE p \in PlayerIds : \E k \in DOMAIN SessionSeq : SessionSeq[k] = s /\ p = <<"p1", "p2", "p3">>[k]
\* Every id a session can carry.
NetIds == ClientIds \cup {addr(s)[1] : s \in Sessions}

\* ClientSession.__init__; conn is "none" before the connection is accepted,
\* then "open", and "closed" once conn.close() was called.
ClientSession0 ==
    [conn |-> "none", fd |-> 0, player_id |-> None, player_name |-> None,
     room_id |-> None]

\* ClientSession.fileno: socket.fileno() is -1 once the socket is closed.
fileno(c) == IF c.conn = "open" THEN c.fd ELSE -1

\* The locals of a thread inside add_player or submit_guess.
NoLocal == [text |-> <<>>, gained |-> 0, tmp |-> 0, ok |-> FALSE]
\* What a session was last sent in answer to join_room (ack) or guess
\* (guess_result).
NoReply == [type |-> None, ok |-> FALSE, score |-> 0]
Ack(ok) == [type |-> "ack", ok |-> ok, score |-> 0]

\* ------------------------------------------------------------------------
\* The legacy Room and Player objects (server/models) as constructed
\* ------------------------------------------------------------------------
\* Room.__init__: max_players defaults to 8.
DefaultMaxPlayers == 8
Room0(max_players) ==
    [max_players |-> max_players, players |-> <<>>, current_word |-> NoneWord,
     current_drawer |-> None, round_number |-> 0, is_active |-> FALSE,
     guessed_players |-> <<>>]
\* Room.id
RoomId == "room"
\* Player.__init__
Player0 == [score |-> 0, room_id |-> None, is_drawing |-> FALSE]

\* The server variants whose writes are compared.
Variants == {"NetworkServer", "ChatServer", "GameServer"}
\* GameServer.__init__
GameServer0 == [running |-> FALSE, socket |-> "none", accept_thread |-> "none", ret |-> "none"]

\* The connections the ChatServer and the legacy GameServer accept in the
\* model, and the chat rooms clients name ("lobby" is the room of a
\* join_room that names none).
Conns == {"k1", "k2"}
ChatRoomIds == {"a", "lobby"}

\* ChatServer._handle_client before the connection is accepted: pc is
\* "none", then "recv" in the read loop and "done" after the finally clause;
\* room_id is the local variable; peer, sent and wire are the client's end,
\* what it wrote and what was not read yet; lines are the lines the handler
\* decoded and dispatched.
Handler0 == [pc |-> "none", room_id |-> None, peer |-> "up",
             sent |-> <<>>, wire |-> <<>>, lines |-> <<>>]

\* ChatServer.__init__: no room.  A room that was never created and one that
\* is empty are told apart nowhere in the code (`if not conns: return`).
InitChat ==
    /\ rooms = [r \in ChatRoomIds |-> {}]
    /\ handler = [c \in Conns |-> Handler0]

\* GameServer._handle_client before the connection is accepted; player_id is
\* its local variable.
Client0 == [pc |-> "none", player_id |-> None, peer |-> "up"]

\* GameServer.__init__: no player, the default room empty.
InitGame ==
    /\ gplayers = <<>>
    /\ default_room = {}
    /\ client = [c \in Conns |-> Client0]

\* NetworkServer.__init__ and start(): no session, the listening socket open,
\* the accept thread at the top of its loop.
InitSessionVars ==
    /\ InitChat
    /\ InitGame
    /\ nstart = "returned"
    /\ gserver = GameServer0
    /\ out = [v \in Variants |-> <<>>]
    /\ sent = [s \in Sessions |-> <<>>]
    /\ wire = [s \in Sessions |-> <<>>]
    /\ buf = [s \in Sessions |-> <<>>]
    /\ handed = [s \in Sessions |-> <<>>]
    /\ running = TRUE
    /\ listener = "open"
    /\ apc = "while"
    /\ spc = "none"
    /\ todo = {}
    /\ sess = [s \in Sessions |-> ClientSession0]
    /\ sessions = <<>>
    /\ peer = [s \in Sessions |-> "up"]
    /\ pc = [s \in Sessions |-> "none"]
    /\ local = [s \in Sessions |-> NoLocal]
    /\ joined = [s \in Sessions |-> {}]
    /\ reply = [s \in Sessions |-> NoReply]

\* The same, beside a legacy Room of the default capacity that nobody uses.
InitSessions ==
    /\ InitSessionVars
    /\ lroom = Room0(DefaultMaxPlayers)
    /\ lplayers = [p \in PlayerIds |-> Player0]

\* The traffic of the sessions in DOMAIN outbox is observed: of none, unless
\* a specification says otherwise.
InitNetVars ==
    /\ InitSessions
    /\ outbox = <<>>

\* ------------------------------------------------------------------------
\* SpecRoom: one caller invokes the GameRoom API, one call at a time.
\* ------------------------------------------------------------------------
ScoresWithin(R) == \A p \in DOMAIN R.players : R.players[p].score <= MaxScore

InitRoom ==
    /\ MAX_PLAYERS \in MaxPlayersChoices
    /\ room = GameRoom0
    /\ added = {}
    /\ drawn = <<>>
    /\ round_solved = FALSE
    /\ InitNetVars

\* The drawers of the last start_round calls over an unchanged membership,
\* at most as many as there are players.
Drawn(R, d) ==
    LET n == Cardinality(DOMAIN R.players)
        s == Append(drawn, d)
    IN  IF Len(s) > n THEN SubSeq(s, Len(s) - n + 1, Len(s)) ELSE s

AddPlayer(p, name, order) ==
    LET r == add_player(room, p, name, order)
    IN  /\ room' = r.room
        /\ added' = IF r.ret THEN added \cup {p} ELSE added
        /\ drawn' = IF r.ret THEN <<>> ELSE drawn
        /\ UNCHANGED <<chatVars, gameVars, serverVars, legacyVars, frameVars, stopVars, MAX_PLAYERS, round_solved, netVars>>

RemovePlayer(p, order) ==
    LET r == remove_player(room, p, order)
    IN  /\ room' = r.room
        /\ added' = added \ {p}
        /\ drawn' = IF p \in DOMAIN room.players THEN <<>> ELSE drawn
        /\ UNCHANGED <<chatVars, gameVars, serverVars, legacyVars, frameVars, stopVars, MAX_PLAYERS, round_solved, netVars>>

StartGame(order, word) ==
    LET r == start_game(room, order, word)
    IN  /\ room' = r.room
        /\ drawn' = IF r.ret THEN Drawn(r.room, r.room.current_round.drawer_id) ELSE drawn
        /\ round_solved' = (round_solved /\ ~r.ret)
        /\ UNCHANGED <<chatVars, gameVars, serverVars, legacyVars, frameVars, stopVars, MAX_PLAYERS, added, netVars>>

StartRound(order, word) ==
    LET r == start_round(room, order, word)
    IN  /\ room' = r.room
        /\ drawn' = IF r.ret THEN Drawn(r.room, r.room.current_round.drawer_id) ELSE drawn
        /\ round_solved' = (round_solved /\ ~r.ret)
        /\ UNCHANGED <<chatVars, gameVars, serverVars, legacyVars, frameVars, stopVars, MAX_PLAYERS, added, netVars>>

NextRound(order, word) ==
    LET r == next_round(room, order, word)
    IN  /\ room.rounds_played < MaxRounds
        /\ room' = r.room
        /\ drawn' = IF r.ret THEN Drawn(r.room, r.room.current_round.drawer_id) ELSE drawn
        /\ round_solved' = (round_solved /\ ~r.ret)
        /\ UNCHANGED <<chatVars, gameVars, serverVars, legacyVars, frameVars, stopVars, MAX_PLAYERS, added, netVars>>

SubmitGuess(p, text, left) ==
    LET r == submit_guess(room, p, text, left)
    IN  /\ ScoresWithin(r.room)
        /\ room' = r.room
        /\ round_solved' = (round_solved \/ r.ret[1])
        /\ UNCHANGED <<chatVars, gameVars, serverVars, legacyVars, frameVars, stopVars, MAX_PLAYERS, added, drawn, netVars>>

EndGame ==
    LET r == end_game(room)
    IN  /\ room' = r.room
        /\ UNCHANGED <<chatVars, gameVars, serverVars, legacyVars, frameVars, stopVars, MAX_PLAYERS, added, drawn, round_solved, netVars>>

ResetRoom ==
    LET r == reset_room(room)
    IN  /\ room' = r.room
        /\ added' = {}
        /\ drawn' = <<>>
        /\ round_solved' = FALSE
        /\ UNCHANGED <<chatVars, gameVars, serverVars, legacyVars, frameVars, stopVars, MAX_PLAYERS, netVars>>

NextRoom ==
    \/ \E p \in PlayerIds, name \in Names :
          \E order \in Orders(DOMAIN room.players \cup {p}) : AddPlayer(p, name, order)
    \/ \E p \in PlayerIds :
          \E order \in Orders(DOMAIN room.players \ {p}) : RemovePlayer(p, order)
    \/ \E order \in Orders(DOMAIN room.players), word \in words : StartGame(order, word)
    \/ \E order \in Orders(DOMAIN room.players), word \in words : StartRound(order, word)
    \/ \E order \in Orders(DOMAIN room.players), word \in words : NextRound(order, word)
    \/ \E p \in PlayerIds, text \in Texts, left \in LeftChoices : SubmitGuess(p, text, left)
    \/ EndGame
    \/ ResetRoom

SpecRoom == InitRoom /\ [][NextRoom]_vars

\* ------------------------------------------------------------------------
\* Claims about the GameRoom API (SpecRoom)
\* ------------------------------------------------------------------------
\* ------------------------------------------------------------------------
\* GameRoom: one game of one round, scored at any clock reading (SpecScore)
\* ------------------------------------------------------------------------
ScoreGuess(p, text, left) ==
    LET r == submit_guess(room, p, text, left)
    IN  /\ room' = r.room
        /\ round_solved' = (round_solved \/ r.ret[1])
        /\ UNCHANGED <<chatVars, gameVars, serverVars, legacyVars, frameVars, stopVars, MAX_PLAYERS, added, drawn, netVars>>

NextScore ==
    \/ \E p \in PlayerIds, name \in Names :
          \E order \in Orders(DOMAIN room.players \cup {p}) : AddPlayer(p, name, order)
    \/ \E p \in PlayerIds :
          \E order \in Orders(DOMAIN room.players \ {p}) : RemovePlayer(p, order)
    \/ \E order \in Orders(DOMAIN room.players), word \in words : StartGame(order, word)
    \/ \E p \in PlayerIds, text \in Texts, left \in LeftChoices : ScoreGuess(p, text, left)

SpecScore == InitRoom /\ [][NextScore]_vars

\* ------------------------------------------------------------------------
\* Claims
\* ------------------------------------------------------------------------
Players == DOMAIN room.players
Score(p) == room.players[p].score
Rnd == room.current_round

\* The guess texts tried against a room: the clients' texts and the secret word.
GuessTexts == Texts \cup (IF Rnd.word = NoneWord THEN {} ELSE {Rnd.word})

\* C5: after any sequence of add_player / remove_player calls the keys of the
\* player map are exactly the ids whose last successful add_player was not
\* followed by a remove_player, and there are at most MAX_PLAYERS of them.
\* (reset_room, which discards the whole GameState, empties both.)
C5_PlayersAreAddedNotRemoved ==
    /\ Players = added
    /\ Cardinality(Players) <= MAX_PLAYERS

\* The room is full while an id is left that is not a member.
C5_Witness ==
    /\ Cardinality(added) = MAX_PLAYERS
    /\ PlayerIds \ added # {}

\* C6 (as claimed): remove_player(d) of the current round's drawer d leaves
\* the round inactive and its drawer_id unset.
C6_RemovingDrawerClearsDrawer ==
    [][\A d \in PlayerIds :
          (/\ d = Rnd.drawer_id
           /\ d \in Players
           /\ \E order \in Orders(Players \ {d}) : RemovePlayer(d, order))
          => (/\ ~room'.current_round.is_active
              /\ room'.current_round.drawer_id = None)]_vars

\* C7: once a correct guess was accepted in the current round, every
\* submit_guess (any player, any text, any clock reading) returns (False, 0)
\* and leaves the room, hence every score and solved_by, as it is, until a
\* new round is started.
C7_SolvedRoundRejectsGuesses ==
    round_solved =>
        \A p \in PlayerIds, text \in GuessTexts, left \in LeftChoices :
            submit_guess(room, p, text, left) = Res(room, <<FALSE, 0>>)

\* A round was solved and the solver and the drawer are still members.
C7_Witness ==
    /\ round_solved
    /\ Rnd.solved_by \in Players
    /\ Rnd.drawer_id \in Players
    /\ \E p \in Players : p # Rnd.drawer_id /\ p # Rnd.solved_by

\* C8: submit_guess by the current round's drawer returns (False, 0) for
\* every text, the secret word included, and changes nothing in the room
\* (no score, no solved_by, no recorded guess).
C8_DrawerGuessRejected ==
    Rnd.drawer_id # None =>
        \A text \in GuessTexts, left \in LeftChoices :
            submit_guess(room, Rnd.drawer_id, text, left) = Res(room, <<FALSE, 0>>)

\* An active, unsolved round whose drawer is a member: the drawer is turned
\* away by the drawer check alone.
C8_Witness ==
    /\ Rnd.is_active
    /\ Rnd.solved_by = None
    /\ Rnd.drawer_id \in Players
    /\ Rnd.word \in GuessTexts

PairwiseDistinct(s) == \A i, j \in DOMAIN s : i # j => s[i] # s[j]

\* C9: over an unchanged player set of size N, the drawers of any N
\* consecutive successful start_round calls are pairwise distinct, and N of
\* them are all the players.
C9_RoundRobin ==
    /\ PairwiseDistinct(drawn)
    /\ Len(drawn) = Cardinality(Players) => Range(drawn) = Players

\* Three rounds were started over the same three players.
C9_Witness ==
    /\ Cardinality(Players) = 3
    /\ Len(drawn) = 3

\* C10: no GameRoom operation lowers the score of a player who is a member
\* before and after it (reset_room leaves no member).
C10_ScoreNeverDecreases ==
    [][\A p \in Players \cap DOMAIN room'.players :
          room'.players[p].score >= Score(p)]_vars

\* Two members have scored.
C10_Witness ==
    \E p, q \in Players : p # q /\ Score(p) > 0 /\ Score(q) > 0

\* The score the specification gives for L whole seconds left of D.
Tier(L, D) ==
    IF 10 * L >= 7 * D THEN 10
    ELSE IF 10 * L >= 4 * D THEN 7
    ELSE IF L > 0 THEN 5
    ELSE 3

\* C11: an accepted correct guess with L seconds left of a DRAW_TIME round
\* adds exactly Tier(L) to the guesser's score and Tier(L) \div 2 to the
\* drawer's (when the drawer is a member) and changes no other score; for
\* DRAW_TIME = 60, L >= 42 gives 10 and 5, and 0 < L < 24 gives 5 and 2.
C11_ScoringTiers ==
    \A p \in PlayerIds, text \in GuessTexts, L \in 0..DRAW_TIME :
        LET r == submit_guess(room, p, text, L)
            g == Tier(L, DRAW_TIME)
            d == Rnd.drawer_id
        IN  r.ret[1] =>
              /\ r.ret[2] = g
              /\ DOMAIN r.room.players = Players
              /\ \A q \in Players :
                    r.room.players[q].score - Score(q) =
                        (IF q = p THEN g ELSE 0) + (IF q = d THEN g \div 2 ELSE 0)
              /\ (DRAW_TIME = 60 /\ L >= 42) => (g = 10 /\ g \div 2 = 5)
              /\ (DRAW_TIME = 60 /\ 0 < L /\ L < 24) => (g = 5 /\ g \div 2 = 2)

\* A guess was accepted in the top tier: the solver holds 10, the drawer 5
\* and a third member nothing.
C11_Witness ==
    /\ Rnd.solved_by \in Players
    /\ Rnd.drawer_id \in Players
    /\ Score(Rnd.solved_by) = 10
    /\ Score(Rnd.drawer_id) = 5
    /\ \E q \in Players : Score(q) = 0

\* The words a round may hold in place of its own.
OtherWords == words \cup Texts \cup {NoneWord}

\* C12: the room_state snapshot does not depend on the secret word: rooms
\* that differ only in the current round's word have the same snapshot.
C12_SnapshotHidesWord ==
    \A w \in OtherWords, left \in LeftChoices :
        get_public_state([room EXCEPT !.current_round.word = w], left)
            = get_public_state(room, left)

\* An active round holds a word that differs from another candidate.
C12_Witness ==
    /\ Rnd.is_active
    /\ Rnd.word \in words
    /\ \E w \in OtherWords : w # Rnd.word

\* C20: the room follows LOBBY -> ROUND_ACTIVE -> ROUND_ENDED.  A step that
\* counts one more round played (next_round) and leaves a round active starts
\* from a round that has ended, so an active round is never replaced; and a
\* step from LOBBY to an active round is a successful start_game.
C20_NextRoundOnlyAfterRoundEnded ==
    [][ /\ (room'.rounds_played = room.rounds_played + 1
              /\ room'.current_round.is_active)
            => (room.is_started /\ ~Rnd.is_active)
        /\ (~room.is_started /\ room'.current_round.is_active)
            => (/\ room'.is_started
                /\ room'.rounds_played = 0
                /\ Cardinality(Players) >= MIN_PLAYERS) ]_vars

\* C21: start_game returns False and leaves the room as it is when the game
\* is started or fewer than MIN_PLAYERS players are present; otherwise it
\* returns True, sets is_started and opens an active round of index 1 whose
\* drawer is a member.
C21_StartGameContract ==
    \A order \in Orders(Players), word \in words :
        LET r == start_game(room, order, word)
            rnd == r.room.current_round
        IN  IF room.is_started \/ Cardinality(Players) < MIN_PLAYERS
            THEN r = Res(room, FALSE)
            ELSE /\ r.ret = TRUE
                 /\ r.room.is_started
                 /\ rnd.is_active
                 /\ rnd.round_index = 1
                 /\ rnd.drawer_id \in DOMAIN r.room.players
                 /\ DOMAIN r.room.players = Players

\* start_game has succeeded: the first round is open, its drawer a member.
C21_Witness ==
    /\ room.is_started
    /\ Rnd.is_active
    /\ Rnd.round_index = 1
    /\ room.rounds_played = 0
    /\ Rnd.drawer_id \in Players

\* C22: submit_guess returns (False, 0) and leaves the whole room unchanged
\* (scores, solved_by, is_active, recorded guesses) when the round is
\* inactive, the guesser is the drawer, the guesser is no member, or the
\* round has a solved_by.
C22_RejectedGuessChangesNothing ==
    \A p \in PlayerIds, text \in GuessTexts, left \in LeftChoices :
        (\/ ~Rnd.is_active
         \/ p = Rnd.drawer_id
         \/ p \notin Players
         \/ Rnd.solved_by # None)
        => submit_guess(room, p, text, left) = Res(room, <<FALSE, 0>>)

\* An active round in which a member's wrong guess was recorded and the
\* drawer's guess was not; a further id is no member.
C22_Witness ==
    /\ Rnd.is_active
    /\ Rnd.guesses # <<>>
    /\ Rnd.drawer_id \in Players
    /\ Rnd.drawer_id \notin DOMAIN Rnd.guesses
    /\ Players # PlayerIds

\* Whether operation result r has made the active round of the room inactive.
Deactivates(r) == Rnd.is_active /\ ~r.room.current_round.is_active

\* C36: an active round becomes inactive only through an accepted correct
\* guess, the removal of its drawer, end_game or reset_room; add_player,
\* the removal of another player, a wrong or rejected guess, start_game,
\* start_round and next_round leave an active round active (the last two
\* replace it by a new active round).
C36_RoundEndsOnlyByListedCauses ==
    Rnd.is_active =>
       /\ \A p \in PlayerIds, name \in Names : \A order \in Orders(Players \cup {p}) :
              ~Deactivates(add_player(room, p, name, order))
       /\ \A p \in PlayerIds : \A order \in Orders(Players \ {p}) :
              Deactivates(remove_player(room, p, order)) <=> (p = Rnd.drawer_id /\ p \in Players)
       /\ \A p \in PlayerIds, text \in GuessTexts, left \in LeftChoices :
              Deactivates(submit_guess(room, p, text, left))
                 <=> submit_guess(room, p, text, left).ret[1]
       /\ \A order \in Orders(Players), word \in words :
              /\ ~Deactivates(start_game(room, order, word))
              /\ ~Deactivates(start_round(room, order, word))
              /\ ~Deactivates(next_round(room, order, word))
       /\ Deactivates(end_game(room))
       /\ Deactivates(reset_room(room))

\* A round has been ended by the removal of its drawer while another member
\* stayed: inactive and unsolved in a started game, the drawer gone.
C36_Witness ==
    /\ room.is_started
    /\ ~Rnd.is_active
    /\ Rnd.round_index >= 1
    /\ Rnd.solved_by = None
    /\ Rnd.drawer_id \notin Players
    /\ Players # {}

\* C37: end_game() leaves is_started false, the round inactive and unsolved,
\* players and scores as they were; while the game is not started every
\* submit_guess, next_round and start_round is rejected and changes
\* nothing, and start_game succeeds exactly when at least MIN_PLAYERS
\* players are present.
C37_EndGame ==
    /\ LET r == end_game(room).room
       IN  /\ ~r.is_started
           /\ ~r.current_round.is_active
           /\ r.current_round.solved_by = None
           /\ r.players = room.players
    /\ ~room.is_started =>
          /\ ~Rnd.is_active
          /\ \A p \in PlayerIds, text \in GuessTexts, left \in LeftChoices :
                 submit_guess(room, p, text, left) = Res(room, <<FALSE, 0>>)
          /\ \A order \in Orders(Players), word \in words :
                 /\ next_round(room, order, word) = Res(room, FALSE)
                 /\ start_round(room, order, word) = Res(room, FALSE)
                 /\ start_game(room, order, word).ret <=> Cardinality(Players) >= MIN_PLAYERS

\* A game with a solved round and a scored player has been ended, with
\* enough players present for the next start_game.
C37_Witness ==
    /\ ~room.is_started
    /\ ~Rnd.is_active
    /\ Rnd.round_index >= 1
    /\ Rnd.solved_by = None
    /\ Rnd.guesses # <<>>
    /\ \E p \in Players : Score(p) > 0
    /\ Cardinality(Players) >= MIN_PLAYERS

\* C38 (as claimed): while the round is active its drawer_id is the id of a
\* member, or None in a room without players.
C38_ActiveDrawerIsMember ==
    Rnd.is_active =>
       \/ Rnd.drawer_id \in Players
       \/ Rnd.drawer_id = None /\ Players = {}

\* The guess texts and secret words tried for the matching rule: every text
\* of at most MaxTextLen characters over MatchAlphabet.
MaxTextLen == 3
MatchAlphabet == {Space, "A", "a", "b", "."}
MatchTexts == UNION {[1..n -> MatchAlphabet] : n \in 0..MaxTextLen}
MatchWords == {<<"a">>, <<"A", "b">>, <<"a", Space, "b">>, <<"a", ".">>}

\* The text between its first and last character that is not whitespace.
Trim(t) ==
    LET idx == {i \in 1..Len(t) : t[i] # Space}
    IN  IF idx = {} THEN <<>>
        ELSE SubSeq(t, CHOOSE i \in idx : \A j \in idx : i <= j,
                       CHOOSE i \in idx : \A j \in idx : i >= j)

SameLetter(c, d) == c = d \/ {c, d} = {"A", "a"} \/ {c, d} = {"B", "b"}

\* Equal after removing surrounding whitespace, up to the case of letters.
SameWord(a, b) ==
    /\ Len(Trim(a)) = Len(Trim(b))
    /\ \A i \in 1..Len(Trim(a)) : SameLetter(Trim(a)[i], Trim(b)[i])

\* C28: a guess by an eligible guesser in an active unsolved round is
\* accepted exactly when the text and the secret word are equal after
\* removing leading and trailing whitespace and folding case; whitespace
\* inside and punctuation count.
C28_GuessMatchesNormalizedWord ==
    \A p \in Players, text \in MatchTexts, w \in MatchWords, left \in LeftChoices :
        (Rnd.is_active /\ p # Rnd.drawer_id /\ Rnd.solved_by = None)
        => LET R == [room EXCEPT !.current_round.word = w]
           IN  submit_guess(R, p, text, left).ret[1] <=> SameWord(text, w)

\* A round solved by a guess that differs from the secret word in case and
\* surrounding whitespace.
C28_Witness ==
    /\ Rnd.solved_by \in Players
    /\ Rnd.solved_by \in DOMAIN Rnd.guesses
    /\ Rnd.guesses[Rnd.solved_by] # Rnd.word
    /\ SameWord(Rnd.guesses[Rnd.solved_by], Rnd.word)

\* ------------------------------------------------------------------------
\* NetworkServer: sending, broadcasting and disconnect cleanup
\*
\* The operators below work on the server state St(room, sess, sessions,
\* joined) and yield the state after the call.
\* ------------------------------------------------------------------------
St(R, ss, reg, jn) == [room |-> R, sess |-> ss, sessions |-> reg, joined |-> jn]

Cur == St(room, sess, sessions, joined)

Registered(st) == Range(st.sessions)

\* dict.pop(key, None)
Pop(d, k) == IF k \in DOMAIN d THEN Del(d, k) ELSE d

\* sendall on a closed socket raises; on a socket whose peer is gone it may.
SendFails(st, x) == st.sess[x].conn # "open"
SendMayFail(st, x) == st.sess[x].conn = "open" /\ peer[x] = "gone"

\* The sets of sessions among S whose write fails: every closed one, and any
\* of those whose peer is gone.
FailSets(st, S) ==
    {{x \in S : SendFails(st, x)} \cup G : G \in SUBSET {x \in S : SendMayFail(st, x)}}

\* _on_disconnect up to its broadcast: the player is removed, the socket is
\* closed, and the registry entry under sess.fileno() is popped; fileno() is
\* taken after close(), so it is -1 and the entry stays.
OnDisconnectBody(st, s, order) ==
    LET c == st.sess[s]
        R == IF c.player_id # None
             THEN remove_player(st.room, c.player_id, order).room
             ELSE st.room
        closed == [c EXCEPT !.conn = "closed"]
    IN  [st EXCEPT !.room = R,
                   !.sess[s] = closed,
                   !.sessions = Pop(@, fileno(closed)),
                   !.joined[s] = {}]

\* _on_disconnect cut short by RecursionError after `del players[pid]`: the
\* cycle is not rebuilt, the round is not ended, the socket is not closed, and
\* the finally clause pops the entry under the socket's real descriptor.
OnDisconnectCut(st, s) ==
    LET c == st.sess[s]
    IN  [st EXCEPT !.room.players = IF c.player_id \in DOMAIN @ THEN Del(@, c.player_id) ELSE @,
                   !.sessions = Pop(@, fileno(c))]

RECURSIVE DisconnectEach(_, _, _, _)
DisconnectEach(st, i, T, order) ==
    IF i > Len(SessionSeq) THEN st
    ELSE DisconnectEach(IF SessionSeq[i] \in T
                        THEN OnDisconnectBody(st, SessionSeq[i], order) ELSE st,
                        i + 1, T, order)

RECURSIVE CutEach(_, _, _)
CutEach(st, i, T) ==
    IF i > Len(SessionSeq) THEN st
    ELSE CutEach(IF SessionSeq[i] \in T THEN OnDisconnectCut(st, SessionSeq[i]) ELSE st,
                 i + 1, T)

\* What a session that is registered and writable may suffer while another
\* session's cleanup runs: _on_disconnect broadcasts to a registry that still
\* holds the closed session, whose write fails, which calls _on_disconnect
\* again, until the interpreter's recursion limit; at that depth the write to
\* any session raises RecursionError inside _send, whose handler calls
\* _on_disconnect for it.  Which sessions are hit, and how far their cleanup
\* gets, depends on the stack depth: "none", "closed" (the whole body ran) or
\* "dropped" (OnDisconnectCut).
Fates == [Sessions -> {"none", "closed", "dropped"}]

\* The sessions whose _on_disconnect body runs when the writes to F fail: F
\* and, through the broadcast of _on_disconnect, every closed session the
\* registry still holds.  No write fails: no cleanup runs.
CleanupTargets(st, F) ==
    IF F = {} THEN {} ELSE F \cup {x \in Registered(st) : SendFails(st, x)}

\* The state after the writes of a handler, of which those to F failed.
Cleanup(st, F, fate, order) ==
    LET T == CleanupTargets(st, F)
        st1 == DisconnectEach(st, 1, T, order)
        storm == T \cap Registered(st1) # {}
        V == IF storm THEN Registered(st1) \ T ELSE {}
        st2 == DisconnectEach(st1, 1, {x \in V : fate[x] = "closed"}, order)
    IN  CutEach(st2, 1, {x \in V : fate[x] = "dropped"})

\* Whether the thread that ran the handler comes back from it: with two
\* closed sessions in the registry every level of the recursion recurses
\* twice, and the call does not return in any practical time.
Hangs(st, F, fate) ==
    Cardinality(CleanupTargets(st, F) \cap Registered(st)) >= 2

\* The fates that matter for the writes to F failing in st.
FatesFor(st, F) ==
    IF CleanupTargets(st, F) \cap Registered(st) = {}
    THEN {[s \in Sessions |-> "none"]}
    ELSE {f \in Fates : \A x \in Sessions :
             (x \notin Registered(st) \/ x \in CleanupTargets(st, F)) => f[x] = "none"}

\* The writes of a handler: the kinds `direct` sent to the requesting session
\* first, then the kind `bcast` broadcast to the sessions `targets` (None:
\* no broadcast).
Writes(direct, bcast, targets) == [direct |-> direct, bcast |-> bcast, targets |-> targets]

WriteSet(s, wr) == (IF wr.direct = {} THEN {} ELSE {s}) \cup wr.targets

\* The sessions that may miss what a handler broadcasts although their own
\* socket is writable: those hit at the recursion limit before the loop of
\* the broadcast reached them, and every one when the thread does not come
\* back from the recursion.
MayMiss(st, F, fate) ==
    LET T == CleanupTargets(st, F)
    IN  {y \in Registered(st) \ T : fate[y] # "none" \/ Hangs(st, F, fate)}

\* What the handler of session s has written to session y when the writes to
\* F failed and the broadcast did not reach `lost`.  The nested broadcasts of
\* _on_disconnect carry room_state.
Delivered(s, st, F, fate, lost, wr, y) ==
    LET T == CleanupTargets(st, F)
        reached == y \in Registered(st) /\ y \notin T /\ y \notin lost
    IN  (IF y = s /\ s \notin F THEN wr.direct ELSE {})
        \cup (IF reached /\ y \in wr.targets /\ wr.bcast # None THEN {wr.bcast} ELSE {})
        \cup (IF reached /\ T \cap Registered(st) # {} THEN {"room_state"} ELSE {})

\* The net variables after a handler of session s that ended in state st0
\* with the writes to F failed.
Commit(s, st0, F, fate, lost, order, wr, next_pc) ==
    \E st \in {Cleanup(st0, F, fate, order)} :
        /\ room' = st.room
        /\ sess' = st.sess
        /\ sessions' = st.sessions
        /\ joined' = st.joined
        /\ outbox' = [y \in DOMAIN outbox |-> Delivered(s, st0, F, fate, lost, wr, y)]
        /\ pc' = [pc EXCEPT ![s] = IF Hangs(st0, F, fate) THEN "hung" ELSE next_pc]
        /\ UNCHANGED <<chatVars, gameVars, serverVars, legacyVars, frameVars, stopVars, MAX_PLAYERS, ghostVars, peer, local, reply>>

\* ------------------------------------------------------------------------
\* NetworkServer: the accept loop and the message handlers, each run to
\* completion (SpecNet)
\* ------------------------------------------------------------------------
\* accept() returns the lowest descriptor number not in use.
FreeFds == {f \in Fds : \A s \in Sessions : sess[s].conn = "open" => sess[s].fd # f}
LowestFree == CHOOSE f \in FreeFds : \A g \in FreeFds : f <= g

\* _accept_loop: one iteration; at most `limit` connections are ever made.
Accept(s, limit) ==
    /\ sess[s].conn = "none"
    /\ Cardinality({x \in Sessions : sess[x].conn # "none"}) < limit
    /\ \A i, j \in DOMAIN SessionSeq :
          (SessionSeq[j] = s /\ i < j) => sess[SessionSeq[i]].conn # "none"
    /\ FreeFds # {}
    /\ sess' = [sess EXCEPT ![s] = [ClientSession0 EXCEPT !.conn = "open", !.fd = LowestFree]]
    /\ sessions' = Put(sessions, LowestFree, s)
    /\ pc' = [pc EXCEPT ![s] = "idle"]
    /\ UNCHANGED <<chatVars, gameVars, serverVars, legacyVars, frameVars, stopVars, MAX_PLAYERS, room, ghostVars, peer, local, joined, reply, outbox>>

\* The client closes its end of the connection.
ClientClose(s) ==
    /\ sess[s].conn # "none"
    /\ peer[s] = "up"
    /\ peer' = [peer EXCEPT ![s] = "gone"]
    /\ UNCHANGED <<chatVars, gameVars, serverVars, legacyVars, frameVars, stopVars, MAX_PLAYERS, room, ghostVars, sess, sessions, pc, local, joined, reply, outbox>>

\* The writes wr of a handler of session s that ended in state st0, with the
\* failures they can have.
Finish(s, st0, wr, next_pc) ==
    \E F \in FailSets(st0, WriteSet(s, wr)) :
    \E fate \in FatesFor(st0, F) :
    \E lost \in SUBSET MayMiss(st0, F, fate) :
    \E order \in Orders(IF F = {} THEN {} ELSE DOMAIN st0.room.players) :
        Commit(s, st0, F, fate, lost, order, wr, next_pc)

\* MSG_CONNECT
Connect(s, player_id, name) ==
    /\ pc[s] = "idle"
    /\ LET st0 == [Cur EXCEPT
                     !.sess[s].player_id = IF player_id # None THEN player_id ELSE addr(s)[1],
                     !.sess[s].player_name = IF name # None THEN name ELSE DefaultName(s)]
       IN  Finish(s, st0, Writes({"ack"}, None, {}), "idle")

\* MSG_JOIN_ROOM
JoinRoom(s) ==
    /\ pc[s] = "idle"
    /\ LET c == sess[s]
           st0 == [Cur EXCEPT !.sess[s].room_id = "default"]
       IN  IF c.player_id # None /\ c.player_name # None
           THEN \E order \in Orders(DOMAIN room.players \cup {c.player_id}) :
                LET r == add_player(st0.room, c.player_id, c.player_name, order)
                    st1 == [st0 EXCEPT !.room = r.room,
                                       !.joined[s] = IF r.ret THEN @ \cup {c.player_id} ELSE @]
                IN  Finish(s, st1, Writes({"ack"}, "room_state", Registered(st1)), "idle")
           ELSE /\ sess' = st0.sess
                /\ outbox' = [y \in DOMAIN outbox |-> {}]
                /\ UNCHANGED <<chatVars, gameVars, serverVars, legacyVars, frameVars, stopVars, MAX_PLAYERS, room, ghostVars, sessions, peer, pc, local, joined, reply>>

\* MSG_LEAVE_ROOM
LeaveRoom(s) ==
    /\ pc[s] = "idle"
    /\ \E order \in Orders(DOMAIN room.players) :
       LET c == sess[s]
           R == IF c.player_id # None
                THEN remove_player(room, c.player_id, order).room ELSE room
           st1 == [Cur EXCEPT !.room = R, !.sess[s].room_id = None, !.joined[s] = {}]
       IN  Finish(s, st1, Writes({"ack"}, "room_state", Registered(st1)), "idle")

\* _on_disconnect(sess) called by a handler or by the read loop: its body,
\* then its broadcast of the room state.
OnDisconnect(s, next_pc) ==
    \E F \in {G \cup {s} : G \in FailSets(Cur, Registered(Cur))} :
    \E fate \in FatesFor(Cur, F) :
    \E lost \in SUBSET MayMiss(Cur, F, fate) :
    \E order \in Orders(DOMAIN room.players) :
        Commit(s, Cur, F, fate, lost, order, Writes({}, "room_state", Registered(Cur)), next_pc)

\* MSG_GUESS
Guess(s, text, left) ==
    /\ pc[s] = "idle"
    /\ IF sess[s].player_id # None
       THEN LET r == submit_guess(room, sess[s].player_id, text, left)
                st1 == [Cur EXCEPT !.room = r.room]
            IN  Finish(s, st1, Writes({"guess_result"}, "room_state", Registered(st1)), "idle")
       ELSE /\ outbox' = [y \in DOMAIN outbox |-> {}]
            /\ UNCHANGED <<chatVars, gameVars, serverVars, legacyVars, frameVars, stopVars, MAX_PLAYERS, room, ghostVars, sess, sessions, peer, pc, local, joined, reply>>

\* MSG_DISCONNECT: _on_disconnect(sess); the read loop goes on.
Disconnect(s) ==
    /\ pc[s] = "idle"
    /\ OnDisconnect(s, "idle")

\* _session_loop leaves its loop (recv returned b"" or raised) and runs
\* _on_disconnect in its finally clause; the thread ends.
LoopExit(s) ==
    /\ pc[s] = "idle"
    /\ peer[s] = "gone" \/ sess[s].conn = "closed"
    /\ OnDisconnect(s, "done")

NextNet ==
    \/ \E s \in Sessions : Accept(s, MaxConns)
    \/ \E s \in Sessions : ClientClose(s)
    \/ \E s \in Sessions, data \in ConnectData : Connect(s, data[1], data[2])
    \/ \E s \in Sessions : JoinRoom(s)
    \/ \E s \in Sessions : LeaveRoom(s)
    \/ \E s \in Sessions, text \in words, left \in RaceLeft : Guess(s, text, left)
    \/ \E s \in Sessions : Disconnect(s)
    \/ \E s \in Sessions : LoopExit(s)

InitNet == InitRoom /\ \A m \in MaxPlayersChoices : MAX_PLAYERS <= m

SpecNet == InitNet /\ [][NextNet]_vars

\* ------------------------------------------------------------------------
\* NetworkServer: the handlers run to completion, with what every session
\* is sent observed (SpecCast).  A client connects at most once, under an id
\* of its own.
\* ------------------------------------------------------------------------
CastConnect(s, player_id, name) ==
    /\ sess[s].player_id = None
    /\ Connect(s, player_id, name)

NextCast ==
    \/ \E s \in Sessions : Accept(s, MaxConns)
    \/ \E s \in Sessions : ClientClose(s)
    \/ \E s \in Sessions, name \in ClientNames : CastConnect(s, OwnId(s), name)
    \/ \E s \in Sessions : JoinRoom(s)
    \/ \E s \in Sessions, text \in words, left \in RaceLeft : Guess(s, text, left)
    \/ \E s \in Sessions : Disconnect(s)
    \/ \E s \in Sessions : LoopExit(s)

InitCast ==
    /\ MAX_PLAYERS \in MaxPlayersChoices
    /\ \A m \in MaxPlayersChoices : MAX_PLAYERS <= m
    /\ room = GameRoom0
    /\ added = {}
    /\ drawn = <<>>
    /\ round_solved = FALSE
    /\ InitSessions
    /\ outbox = [s \in Sessions |-> {}]

SpecCast == InitCast /\ [][NextCast]_vars

\* A session whose socket is open at both ends: the server's writes to it
\* succeed.
Healthy(s) == sess[s].conn = "open" /\ peer[s] = "up"

\* C17: every join_room handled for a session is answered to that session
\* with an ack, and every guess with a guess_result, whatever the state of
\* the session (also one that has not sent connect) and of the room, and the
\* handling does not close the connection.
C17_JoinAndGuessAnswered ==
    [][\A s \in Sessions :
          Healthy(s) =>
             /\ JoinRoom(s) => ("ack" \in outbox'[s] /\ sess'[s].conn = "open")
             /\ (\E text \in words, left \in RaceLeft : Guess(s, text, left))
                   => ("guess_result" \in outbox'[s] /\ sess'[s].conn = "open")]_vars

\* The handler steps of session s that broadcast the room state: a join_room
\* or a guess of a session that carries a player id, and the departure of s
\* (a disconnect message or the end of its read loop).
Departing(s) == Disconnect(s) \/ LoopExit(s)

Broadcasting(s) ==
    \/ JoinRoom(s) /\ sess[s].player_id # None /\ sess[s].player_name # None
    \/ sess[s].player_id # None /\ \E text \in words, left \in RaceLeft : Guess(s, text, left)
    \/ Departing(s)

\* C14: when a write of a broadcast fails, every other session registered
\* when the broadcast began (all but a departing one, whose socket the step
\* closes) is still sent the message, and the cleanup of
\* the session whose write failed is run: its socket is closed and its
\* player is out of the room.
C14_BroadcastSurvivesFailedWrite ==
    [][\A s \in Sessions :
          Broadcasting(s) =>
             /\ \A y \in Registered(Cur) :
                   (Healthy(y) /\ ~(y = s /\ Departing(s))) => "room_state" \in outbox'[y]
             /\ \A x \in Registered(Cur) :
                   SendFails(Cur, x) => /\ sess'[x].conn = "closed"
                                        /\ sess[x].player_id \notin DOMAIN room'.players]_vars

\* C15: a failure on one session never makes another session's socket
\* closed, its registry entry removed or its read loop stop: in every step
\* other than its own disconnect message, a healthy session keeps its socket
\* open, stays registered and stays in its read loop, also when the failure
\* is met inside a broadcast that its own thread runs.
C15_FailuresStayLocal ==
    [][\A y \in Sessions :
          (Healthy(y) /\ ~Disconnect(y)) =>
             /\ sess'[y].conn = "open"
             /\ y \in Registered(Cur) => y \in Range(sessions')
             /\ pc[y] = "idle" => pc'[y] = "idle"]_vars

\* C18: when a session whose player is in the room departs, the player is
\* out of the room, a round it was drawing is ended, and every other healthy
\* registered session is sent the room state: in the departure step, or it
\* is left open and registered for a later broadcast to reach.
C18_DepartureIsRebroadcast ==
    [][\A s \in Sessions :
          (Departing(s) /\ sess[s].player_id \in Players) =>
             /\ sess[s].player_id \notin DOMAIN room'.players
             /\ Rnd.drawer_id = sess[s].player_id => ~room'.current_round.is_active
             /\ \A y \in Registered(Cur) \ {s} :
                   Healthy(y) => \/ "room_state" \in outbox'[y]
                                 \/ sess'[y].conn = "open" /\ y \in Range(sessions')]_vars

\* C1 (as claimed): a player id is in the room's player map exactly when some
\* open session joined under it and has neither left nor disconnected since.
C1_PlayersAreJoinedSessions ==
    \A p \in NetIds :
        p \in Players <=> \E s \in Sessions : sess[s].conn = "open" /\ p \in joined[s]

\* C34 (as claimed): the registry holds only sessions whose socket is open:
\* once _on_disconnect has closed a session, the session is out of the
\* registry.
C34_RegistryHoldsOpenSessions ==
    \A x \in Range(sessions) : sess[x].conn = "open"

\* C35 (as claimed): every call of _on_disconnect and of broadcast returns:
\* no session thread stays inside the mutual calls of _send, _on_disconnect
\* and broadcast.
C35_CleanupReturns ==
    \A s \in Sessions : pc[s] # "hung"

\* ------------------------------------------------------------------------
\* NetworkServer: relaying draw data and answering unknown types, with what
\* every session is sent observed (SpecRelay)
\* ------------------------------------------------------------------------
\* Message types that no branch of _route_message handles.
UnknownTypes == {"ping", "undo"}

\* The draw_sync message whose payload carries "by": player_id.
DrawSync(player_id) ==
    CASE player_id = "p1" -> "draw_sync by p1"
      [] player_id = "p2" -> "draw_sync by p2"
      [] player_id = "p3" -> "draw_sync by p3"
      [] OTHER -> "draw_sync by None"

\* Mutant of ErrorFor: the message does not name the type.
ErrorFor_unnamed(t) == "error"

\* The error message whose payload is {"msg": "unknown type: <t>"}.
ErrorFor(t) ==
    CASE t = "ping" -> "error unknown type: ping"
      [] OTHER -> "error unknown type: undo"

\* MSG_DRAW: the payload is broadcast to every registered session but the
\* sender.
Draw(s) ==
    /\ pc[s] = "idle"
    /\ Finish(s, Cur, Writes({}, DrawSync(sess[s].player_id), Registered(Cur) \ {s}), "idle")

\* Any other type: an error is sent to the sender.
Unknown(s, t) ==
    /\ pc[s] = "idle"
    /\ Finish(s, Cur, Writes({ErrorFor(t)}, None, {}), "idle")

NextRelay ==
    \/ \E s \in Sessions : Accept(s, Len(SessionSeq))
    \/ \E s \in Sessions : ClientClose(s)
    \/ \E s \in Sessions, name \in ClientNames : CastConnect(s, OwnId(s), name)
    \/ \E s \in Sessions : Draw(s)
    \/ \E s \in Sessions : LoopExit(s)

SpecRelay == InitCast /\ [][NextRelay]_vars

NextReply ==
    \/ \E s \in Sessions : Accept(s, MaxConns)
    \/ \E s \in Sessions : ClientClose(s)
    \/ \E s \in Sessions, name \in ClientNames : CastConnect(s, OwnId(s), name)
    \/ \E s \in Sessions : JoinRoom(s)
    \/ \E s \in Sessions : Draw(s)
    \/ \E s \in Sessions, t \in UnknownTypes : Unknown(s, t)
    \/ \E s \in Sessions : LoopExit(s)

SpecReply == InitCast /\ [][NextReply]_vars

\* C24 (as claimed): a draw message of a healthy session sends one draw_sync
\* tagged with the sender's player id to every other registered session
\* whose socket is writable, sends nothing to the sender, and leaves the
\* room and the sessions as they are.
C24_DrawFansOut ==
    [][\A s \in Sessions :
          (Draw(s) /\ Healthy(s) /\ s \in Registered(Cur)) =>
             /\ \A y \in Registered(Cur) \ {s} :
                   Healthy(y) => outbox'[y] = {DrawSync(sess[s].player_id)}
             /\ outbox'[s] = {}
             /\ room' = room]_vars

\* C25: an unknown type sent by a healthy session is answered to that
\* session, and to no other, with the error naming the type; the sessions,
\* the registry and the room are unchanged.
C25_UnknownTypeAnswered ==
    [][\A s \in Sessions, t \in UnknownTypes :
          (Unknown(s, t) /\ Healthy(s)) =>
             /\ outbox' = [y \in Sessions |-> IF y = s THEN {ErrorFor(t)} ELSE {}]
             /\ ErrorFor(t) \notin {ErrorFor(u) : u \in UnknownTypes \ {t}}
             /\ sess' = sess
             /\ sessions' = sessions
             /\ pc'[s] = "idle"
             /\ room' = room]_vars

\* A registered healthy session that has joined the room has just been
\* answered the error for "ping", beside another registered session.
C25_Witness ==
    \E s \in Sessions :
        /\ outbox[s] = {ErrorFor("ping")}
        /\ Healthy(s)
        /\ s \in Range(sessions)
        /\ sess[s].player_id \in Players
        /\ \E y \in Range(sessions) \ {s} : outbox[y] = {}

\* ------------------------------------------------------------------------
\* The legacy Room (server/models/room.py): its methods as operators on the
\* room record R and the Player objects P, yielding both and the return
\* value; players is the key list of the dict, in insertion order.
\* ------------------------------------------------------------------------
LRes(R, P, r) == [room |-> R, pl |-> P, ret |-> r]

Max(a, b) == IF a >= b THEN a ELSE b

Members(R) == Range(R.players)

\* Mutant of Room.add_player: the capacity is not checked.
Room_add_player_unbounded(R, P, p) ==
    LRes([R EXCEPT !.players = IF p \in Range(@) THEN @ ELSE Append(@, p)],
         [P EXCEPT ![p].room_id = RoomId], TRUE)

Room_add_player(R, P, p) ==
    IF Len(R.players) >= R.max_players THEN LRes(R, P, FALSE)
    ELSE LRes([R EXCEPT !.players = IF p \in Range(@) THEN @ ELSE Append(@, p)],
              [P EXCEPT ![p].room_id = RoomId], TRUE)

\* Mutant of Room.end_round: the word is not cleared.
Room_end_round_keeps_word(R, P) ==
    LRes([R EXCEPT !.is_active = FALSE, !.guessed_players = <<>>],
         [q \in DOMAIN P |-> IF q \in Members(R) THEN [P[q] EXCEPT !.is_drawing = FALSE]
                             ELSE P[q]],
         None)

Room_end_round(R, P) ==
    LRes([R EXCEPT !.is_active = FALSE, !.current_word = NoneWord,
                   !.guessed_players = <<>>],
         [q \in DOMAIN P |-> IF q \in Members(R) THEN [P[q] EXCEPT !.is_drawing = FALSE]
                             ELSE P[q]],
         None)

Room_remove_player(R, P, p) ==
    IF p \in Members(R)
    THEN LET R1 == [R EXCEPT !.players = SelectSeq(@, LAMBDA q : q # p)]
             P1 == [P EXCEPT ![p].room_id = None]
         IN  IF R.current_drawer = p THEN Room_end_round(R1, P1) ELSE LRes(R1, P1, None)
    ELSE LRes(R, P, None)

\* Mutant of Room.start_round: the drawer flags of the members are not set.
Room_start_round_no_flags(R, P, word) ==
    LET n == R.round_number + 1
        ids == R.players
    IN  LRes([R EXCEPT !.round_number = n, !.current_word = word,
                       !.guessed_players = <<>>,
                       !.current_drawer = IF ids # <<>> THEN ids[(n % Len(ids)) + 1] ELSE @,
                       !.is_active = TRUE],
             P, None)

Room_start_round(R, P, word) ==
    LET n == R.round_number + 1
        ids == R.players
        drawer == IF ids # <<>> THEN ids[(n % Len(ids)) + 1] ELSE R.current_drawer
    IN  LRes([R EXCEPT !.round_number = n, !.current_word = word,
                       !.guessed_players = <<>>, !.current_drawer = drawer,
                       !.is_active = TRUE],
             [q \in DOMAIN P |-> IF q \in Range(ids) THEN [P[q] EXCEPT !.is_drawing = (q = drawer)]
                                 ELSE P[q]],
             None)

\* guess.strip().lower() == current_word.lower()
is_correct(guess, current_word) ==
    LET g == RStrip(LStrip(guess))
    IN  [i \in 1..Len(g) |-> Lower(g[i])] = [i \in 1..Len(current_word) |-> Lower(current_word[i])]

\* Mutant of AlreadyGuessed: earlier solvers are not turned away.
AlreadyGuessed_never(R, p) == FALSE

\* `player_id in self.guessed_players`
AlreadyGuessed(R, p) == p \in Range(R.guessed_players)

Room_check_guess(R, P, p, guess) ==
    IF R.current_word = NoneWord \/ R.current_word = <<>> \/ p = R.current_drawer
    THEN LRes(R, P, FALSE)
    ELSE IF AlreadyGuessed(R, p) THEN LRes(R, P, FALSE)
    ELSE IF is_correct(guess, R.current_word)
         THEN LET g == Append(R.guessed_players, p)
                  points == 100 - Len(g) * 10
              IN  LRes([R EXCEPT !.guessed_players = g],
                       IF p \in Members(R)
                       THEN [P EXCEPT ![p].score = @ + Max(10, points)] ELSE P,
                       TRUE)
         ELSE LRes(R, P, FALSE)

\* ------------------------------------------------------------------------
\* SpecLegacy: one caller invokes the legacy Room API, one call at a time,
\* on a room of capacity 1 or 2.
\* ------------------------------------------------------------------------
LegacyCapacities == {1, 2}
\* start_round is taken in the model only while round_number < MaxLegacyRounds.
MaxLegacyRounds == 2
\* The words of data/words.txt as the legacy server loads them (stripped,
\* not empty), and the guess texts tried.
LegacyWords == {<<"a">>, <<"A", "b">>}
LegacyGuesses == {<<"a">>, <<Space, "A">>, <<"a", "B", Space>>, <<"b">>}

LApply(r) ==
    /\ lroom' = r.room
    /\ lplayers' = r.pl

LegacyAddPlayer(p) ==
    /\ LApply(Room_add_player(lroom, lplayers, p))
    /\ UNCHANGED <<chatVars, gameVars, serverVars, frameVars, stopVars, MAX_PLAYERS, room, ghostVars, netVars>>

LegacyRemovePlayer(p) ==
    /\ LApply(Room_remove_player(lroom, lplayers, p))
    /\ UNCHANGED <<chatVars, gameVars, serverVars, frameVars, stopVars, MAX_PLAYERS, room, ghostVars, netVars>>

LegacyStartRound(word) ==
    /\ lroom.round_number < MaxLegacyRounds
    /\ LApply(Room_start_round(lroom, lplayers, word))
    /\ UNCHANGED <<chatVars, gameVars, serverVars, frameVars, stopVars, MAX_PLAYERS, room, ghostVars, netVars>>

LegacyEndRound ==
    /\ LApply(Room_end_round(lroom, lplayers))
    /\ UNCHANGED <<chatVars, gameVars, serverVars, frameVars, stopVars, MAX_PLAYERS, room, ghostVars, netVars>>

LegacyCheckGuess(p, guess) ==
    /\ LApply(Room_check_guess(lroom, lplayers, p, guess))
    /\ UNCHANGED <<chatVars, gameVars, serverVars, frameVars, stopVars, MAX_PLAYERS, room, ghostVars, netVars>>

InitLegacy ==
    /\ MAX_PLAYERS \in MaxPlayersChoices
    /\ \A m \in MaxPlayersChoices : MAX_PLAYERS <= m
    /\ room = GameRoom0
    /\ added = {}
    /\ drawn = <<>>
    /\ round_solved = FALSE
    /\ InitSessionVars
    /\ outbox = <<>>
    /\ lroom \in {Room0(m) : m \in LegacyCapacities}
    /\ lplayers = [p \in PlayerIds |-> Player0]

NextLegacy ==
    \/ \E p \in PlayerIds : LegacyAddPlayer(p)
    \/ \E p \in PlayerIds : LegacyRemovePlayer(p)
    \/ \E word \in LegacyWords : LegacyStartRound(word)
    \/ LegacyEndRound
    \/ \E p \in PlayerIds, guess \in LegacyGuesses : LegacyCheckGuess(p, guess)

SpecLegacy == InitLegacy /\ [][NextLegacy]_vars

\* C29: in the legacy Room, a check_guess by the current drawer returns
\* False and changes nothing; a correct guess of a member who is not the
\* drawer and has not guessed correctly in this round returns True, raises
\* that member's score and no other; a correct guess of one who has guessed
\* correctly in this round returns False and changes nothing.
C29_LegacyScoredOncePerRound ==
    \A p \in PlayerIds, guess \in LegacyGuesses :
        LET r == Room_check_guess(lroom, lplayers, p, guess)
            correct == lroom.current_word # NoneWord /\ is_correct(guess, lroom.current_word)
        IN  /\ p = lroom.current_drawer => r = LRes(lroom, lplayers, FALSE)
            /\ (correct /\ p # lroom.current_drawer /\ p \in Members(lroom)
                  /\ p \notin Range(lroom.guessed_players))
                  => /\ r.ret = TRUE
                     /\ r.pl[p].score > lplayers[p].score
                     /\ \A q \in PlayerIds \ {p} : r.pl[q] = lplayers[q]
                     /\ p \in Range(r.room.guessed_players)
            /\ (correct /\ p \in Range(lroom.guessed_players))
                  => r = LRes(lroom, lplayers, FALSE)

\* A round in which a member who is not the drawer has been scored for a
\* correct guess, so that its next correct guess is a later one.
C29_Witness ==
    /\ lroom.is_active
    /\ lroom.current_drawer \in Members(lroom)
    /\ \E p \in Members(lroom) \ {lroom.current_drawer} :
          /\ p \in Range(lroom.guessed_players)
          /\ lplayers[p].score > 0

\* C30: legacy start_round(word) on a room with at least one player leaves
\* the round active with that word, the round number one higher, the drawer
\* a member, and is_drawing set for the drawer and for no other member.
C30_LegacyStartRound ==
    \A word \in LegacyWords :
        lroom.players # <<>> =>
            LET r == Room_start_round(lroom, lplayers, word)
            IN  /\ r.room.is_active
                /\ r.room.current_word = word
                /\ r.room.round_number = lroom.round_number + 1
                /\ r.room.current_drawer \in Members(r.room)
                /\ Members(r.room) = Members(lroom)
                /\ {q \in Members(r.room) : r.pl[q].is_drawing} = {r.room.current_drawer}

\* A second round has been started on two members, one of whom was drawing
\* in the first: the flags have moved with the drawer.
C30_Witness ==
    /\ lroom.is_active
    /\ lroom.round_number = 2
    /\ Len(lroom.players) = 2
    /\ lroom.current_drawer = lroom.players[1]
    /\ lplayers[lroom.players[1]].is_drawing
    /\ ~lplayers[lroom.players[2]].is_drawing

\* C31: legacy end_round(), from any state, leaves the round inactive, the
\* word None, guessed_players empty and no member drawing; and while the
\* round is inactive (from end_round to the next start_round) every
\* check_guess returns False and changes nothing.
C31_LegacyEndRound ==
    /\ LET r == Room_end_round(lroom, lplayers)
       IN  /\ ~r.room.is_active
           /\ r.room.current_word = NoneWord
           /\ r.room.guessed_players = <<>>
           /\ \A q \in Members(r.room) : ~r.pl[q].is_drawing
           /\ Members(r.room) = Members(lroom)
           /\ \A q \in PlayerIds : r.pl[q].score = lplayers[q].score
    /\ ~lroom.is_active =>
          \A p \in PlayerIds, guess \in LegacyGuesses \cup LegacyWords :
              Room_check_guess(lroom, lplayers, p, guess) = LRes(lroom, lplayers, FALSE)

\* A round in which a member was scored has been ended, and a member who
\* is not the last drawer is there to guess.
C31_Witness ==
    /\ ~lroom.is_active
    /\ lroom.round_number >= 1
    /\ lroom.current_word = NoneWord
    /\ \E p \in Members(lroom) : lplayers[p].score > 0
    /\ \E p \in Members(lroom) : p # lroom.current_drawer

\* ------------------------------------------------------------------------
\* SpecCapacity: players are added to and removed from a GameRoom and a
\* legacy Room, games are played in the first and rounds in the second.
\* ------------------------------------------------------------------------
NextCapacity ==
    \/ \E p \in PlayerIds, name \in Names :
          \E order \in Orders(DOMAIN room.players \cup {p}) : AddPlayer(p, name, order)
    \/ \E p \in PlayerIds :
          \E order \in Orders(DOMAIN room.players \ {p}) : RemovePlayer(p, order)
    \/ \E order \in Orders(DOMAIN room.players), word \in words : StartGame(order, word)
    \/ \E p \in PlayerIds, text \in Texts, left \in RaceLeft : ScoreGuess(p, text, left)
    \/ \E p \in PlayerIds : LegacyAddPlayer(p)
    \/ \E p \in PlayerIds : LegacyRemovePlayer(p)

InitCapacity ==
    /\ MAX_PLAYERS \in MaxPlayersChoices
    /\ room = GameRoom0
    /\ added = {}
    /\ drawn = <<>>
    /\ round_solved = FALSE
    /\ InitSessionVars
    /\ outbox = <<>>
    /\ lroom \in {Room0(m) : m \in LegacyCapacities}
    /\ lplayers = [p \in PlayerIds |-> Player0]

SpecCapacity == InitCapacity /\ [][NextCapacity]_vars

\* C23: add_player on a room that holds its maximum number of players
\* returns False and leaves the player map, keys and members' data,
\* unchanged: GameRoom.add_player with MAX_PLAYERS and the legacy
\* Room.add_player with max_players.
C23_FullRoomRejectsAdd ==
    /\ Cardinality(Players) >= MAX_PLAYERS =>
          \A p \in PlayerIds, name \in Names : \A order \in Orders(Players \cup {p}) :
              LET r == add_player(room, p, name, order)
              IN  r.ret = FALSE /\ r.room.players = room.players
    /\ Len(lroom.players) >= lroom.max_players =>
          \A p \in PlayerIds :
              Room_add_player(lroom, lplayers, p) = LRes(lroom, lplayers, FALSE)

\* Both rooms are full, with one id left outside each to be turned away,
\* and a member of the GameRoom has a score.
C23_Witness ==
    /\ Cardinality(Players) = MAX_PLAYERS
    /\ Players # PlayerIds
    /\ \E p \in Players : Score(p) > 0
    /\ Len(lroom.players) = lroom.max_players
    /\ Members(lroom) # {}
    /\ \A p \in Members(lroom) : lplayers[p].room_id = RoomId

\* ------------------------------------------------------------------------
\* NetworkServer: reading and framing (SpecFrame)
\*
\* One client writes newline-terminated frames; _session_loop reads the
\* bytes in chunks of any size, splits its buffer at the newlines and hands
\* each frame to _handle_raw_message.  pc[s] is "idle" at recv, "split" in
\* the inner loop, "route" with a frame in hand, "done" after the loop.
\* ------------------------------------------------------------------------
NL == "\n"

\* The frames a client writes, by the bytes that tell them apart:
ChatFrame == <<"c", "h">>        \* {"type":"chat","data":{"text":"hi"}}
DisconnectFrame == <<"d", "c">>  \* {"type":"disconnect"}
ChatListFrame == <<"c", "[">>    \* {"type":"chat","data":[1]}
NotJsonFrame == <<"x">>          \* x
ArrayFrame == <<"[">>            \* [1]
NoTypeFrame == <<"{">>           \* {"data":{}}
ClientFrames == {ChatFrame, DisconnectFrame, ChatListFrame,
                 NotJsonFrame, ArrayFrame, NoTypeFrame}

\* The client writes at most MaxFrames frames on a connection; SpecFrame
\* accepts FrameConns connections.
MaxFrames == 2
FrameConns == 1

\* Message.from_json on the decoded frame: the message, or NoMessage when
\* json.loads or obj["type"] raises.  A missing data field becomes {}.
NoMessage == [type |-> None, data |-> None]

from_json(raw) ==
    CASE raw = ChatFrame -> [type |-> "chat", data |-> "mapping"]
      [] raw = DisconnectFrame -> [type |-> "disconnect", data |-> "mapping"]
      [] raw = ChatListFrame -> [type |-> "chat", data |-> "list"]
      [] OTHER -> NoMessage

\* _route_message raises AttributeError at data.get(...) when the handler of
\* the type reads the data and the data is not a mapping.
RouteRaises(m) == m.type = "chat" /\ m.data # "mapping"

\* bytearray.index(byte): the position of its first occurrence, 0 if none.
RECURSIVE Index(_, _)
Index(b, c) ==
    IF b = <<>> THEN 0
    ELSE IF Head(b) = c THEN 1
    ELSE LET i == Index(Tail(b), c) IN IF i = 0 THEN 0 ELSE i + 1

\* The number of frames in a byte stream.
RECURSIVE FrameCount(_)
FrameCount(b) ==
    LET i == Index(b, NL)
    IN  IF i = 0 THEN 0 ELSE 1 + FrameCount(SubSeq(b, i + 1, Len(b)))

\* The frames handed to _handle_raw_message when the byte stream b arrives
\* in one read: the inner loop of _session_loop hands every complete frame
\* in turn, and ends when a handler raises.
RECURSIVE OneRead(_)
OneRead(b) ==
    LET i == Index(b, NL)
        raw == SubSeq(b, 1, i - 1)
        m == from_json(raw)
    IN  IF i = 0 THEN <<>>
        ELSE <<raw>> \o (IF m # NoMessage /\ RouteRaises(m) THEN <<>>
                         ELSE OneRead(SubSeq(b, i + 1, Len(b))))

\* The client writes a frame.
ClientSend(s, f) ==
    /\ sess[s].conn # "none"
    /\ peer[s] = "up"
    /\ FrameCount(sent[s]) < MaxFrames
    /\ sent' = [sent EXCEPT ![s] = @ \o f \o <<NL>>]
    /\ wire' = [wire EXCEPT ![s] = @ \o f \o <<NL>>]
    /\ UNCHANGED <<chatVars, gameVars, serverVars, legacyVars, stopVars, MAX_PLAYERS, room, ghostVars, netVars, buf, handed>>

\* data = conn.recv(BUFFER_SIZE); sess._recv_buffer.extend(data): the first n
\* bytes on the wire.
Recv(s, n) ==
    /\ pc[s] = "idle"
    /\ running
    /\ sess[s].conn = "open"
    /\ n \in 1..Len(wire[s])
    /\ buf' = [buf EXCEPT ![s] = @ \o SubSeq(wire[s], 1, n)]
    /\ wire' = [wire EXCEPT ![s] = SubSeq(@, n + 1, Len(@))]
    /\ pc' = [pc EXCEPT ![s] = "split"]
    /\ UNCHANGED <<chatVars, gameVars, serverVars, legacyVars, stopVars, MAX_PLAYERS, room, ghostVars, sess, sessions, peer, local,
                   joined, reply, outbox, sent, handed>>

\* The inner loop: idx = buffer.index("\n"); raw = buffer[:idx];
\* del buffer[:idx + 1]; no newline: back to recv.
Split(s) ==
    /\ pc[s] = "split"
    /\ LET idx == Index(buf[s], NL)
       IN  IF idx = 0
           THEN /\ pc' = [pc EXCEPT ![s] = "idle"]
                /\ UNCHANGED <<buf, handed>>
           ELSE /\ handed' = [handed EXCEPT ![s] = Append(@, SubSeq(buf[s], 1, idx - 1))]
                /\ buf' = [buf EXCEPT ![s] = SubSeq(@, idx + 1, Len(@))]
                /\ pc' = [pc EXCEPT ![s] = "route"]
    /\ UNCHANGED <<chatVars, gameVars, serverVars, legacyVars, stopVars, MAX_PLAYERS, room, ghostVars, sess, sessions, peer, local,
                   joined, reply, outbox, sent, wire>>

\* _handle_raw_message(sess, raw) for the frame in hand: a frame that does
\* not parse is ignored; a message is routed, and an exception of its handler
\* ends the read loop, whose finally clause runs _on_disconnect.
Route(s) ==
    /\ pc[s] = "route"
    /\ LET m == from_json(handed[s][Len(handed[s])])
       IN  IF m = NoMessage
           THEN /\ pc' = [pc EXCEPT ![s] = "split"]
                /\ UNCHANGED <<chatVars, gameVars, serverVars, legacyVars, frameVars, stopVars, MAX_PLAYERS, room, ghostVars, sess,
                               sessions, peer, local, joined, reply, outbox>>
           ELSE IF RouteRaises(m) THEN OnDisconnect(s, "done")
           ELSE IF m.type = "disconnect" THEN OnDisconnect(s, "split")
           ELSE Finish(s, Cur, Writes({}, "chat", Registered(Cur)), "split")

NextFrame ==
    \/ \E s \in Sessions : Accept(s, FrameConns)
    \/ \E s \in Sessions, f \in ClientFrames : ClientSend(s, f)
    \/ \E s \in Sessions, n \in 1..(3 * MaxFrames) : Recv(s, n)
    \/ \E s \in Sessions : Split(s)
    \/ \E s \in Sessions : Route(s)
    \/ \E s \in Sessions : LoopExit(s)

SpecFrame == InitNet /\ [][NextFrame]_vars

\* The read loop of s has taken all it will take of what was written so far.
Settled(s) == pc[s] = "done" \/ (pc[s] = "idle" /\ wire[s] = <<>>)

\* C13: however the bytes of a connection are cut into reads, the frames
\* handed to _handle_raw_message are those handed when the same bytes arrive
\* in one read, in the same order, and an unterminated tail stays in the
\* buffer.
C13_SplitReadsHandSameFrames ==
    \A s \in Sessions :
        Settled(s) =>
            /\ handed[s] = OneRead(sent[s])
            /\ pc[s] = "idle" => Index(buf[s], NL) = 0

\* A frame that is not a well-formed message: it does not parse, or its data
\* is not a mapping.
Malformed(raw) == from_json(raw) = NoMessage \/ from_json(raw).data # "mapping"

\* C16: the handling of a frame that is not a well-formed message leaves
\* the session open and registered, its read loop going on with the next
\* frame, and the room unchanged.
C16_MalformedFrameKeepsSession ==
    [][\A s \in Sessions :
          (/\ Route(s)
           /\ sess[s].conn = "open"
           /\ Malformed(handed[s][Len(handed[s])]))
          => /\ sess'[s].conn = "open"
             /\ s \in Range(sessions')
             /\ pc'[s] = "split"
             /\ room' = room]_vars

\* ------------------------------------------------------------------------
\* NetworkServer: stop() against the accept loop and the session threads
\* (SpecStop)
\*
\* apc is "while" (the loop test), "accept" (in accept), "register" (a
\* connection in hand) or "done"; spc is "none" (stop not called), "l89",
\* "l100", "l101" or "done"; a session thread is at "start" (before its loop
\* test), "idle" (in recv) or "done".
\* ------------------------------------------------------------------------
\* while self._running.is_set()
AcceptTest ==
    /\ apc = "while"
    /\ apc' = IF running THEN "accept" ELSE "done"
    /\ UNCHANGED <<chatVars, gameVars, serverVars, legacyVars, frameVars, MAX_PLAYERS, room, ghostVars, netVars, running, listener, spc, todo>>

\* conn, addr = self._sock.accept(): a client connects.
AcceptConn(s) ==
    /\ apc = "accept"
    /\ listener = "open"
    /\ sess[s].conn = "none"
    /\ Cardinality({x \in Sessions : sess[x].conn # "none"}) < MaxConns
    /\ \A i, j \in DOMAIN SessionSeq :
          (SessionSeq[j] = s /\ i < j) => sess[SessionSeq[i]].conn # "none"
    /\ FreeFds # {}
    /\ sess' = [sess EXCEPT ![s] = [ClientSession0 EXCEPT !.conn = "open", !.fd = LowestFree]]
    /\ apc' = "register"
    /\ UNCHANGED <<chatVars, gameVars, serverVars, legacyVars, frameVars, MAX_PLAYERS, room, ghostVars, sessions, peer, pc, local, joined,
                   reply, outbox, running, listener, spc, todo>>

\* accept() on the closed listening socket raises: break.
AcceptFails ==
    /\ apc = "accept"
    /\ listener = "closed"
    /\ apc' = "done"
    /\ UNCHANGED <<chatVars, gameVars, serverVars, legacyVars, frameVars, MAX_PLAYERS, room, ghostVars, netVars, running, listener, spc, todo>>

\* self.sessions[conn.fileno()] = sess; the session thread is started.
AcceptRegister(s) ==
    /\ apc = "register"
    /\ sess[s].conn = "open"
    /\ pc[s] = "none"
    /\ sessions' = Put(sessions, fileno(sess[s]), s)
    /\ pc' = [pc EXCEPT ![s] = "start"]
    /\ apc' = "while"
    /\ UNCHANGED <<chatVars, gameVars, serverVars, legacyVars, frameVars, MAX_PLAYERS, room, ghostVars, sess, peer, local, joined,
                   reply, outbox, running, listener, spc, todo>>

\* _session_loop: the first test of `while self._running.is_set()`; when it
\* fails the finally clause runs _on_disconnect.
SessionStart(s) ==
    /\ pc[s] = "start"
    /\ IF running
       THEN /\ pc' = [pc EXCEPT ![s] = "idle"]
            /\ UNCHANGED <<chatVars, gameVars, serverVars, legacyVars, frameVars, stopVars, MAX_PLAYERS, room, ghostVars, sess, sessions,
                           peer, local, joined, reply, outbox>>
       ELSE OnDisconnect(s, "done")

\* stop(): self._running.clear()
StopClearRunning ==
    /\ spc = "none"
    /\ running' = FALSE
    /\ spc' = "l89"
    /\ UNCHANGED <<chatVars, gameVars, serverVars, legacyVars, frameVars, MAX_PLAYERS, room, ghostVars, netVars, listener, apc, todo>>

\* stop(): the listening socket is shut down and closed.
StopCloseListener ==
    /\ spc = "l89"
    /\ listener' = "closed"
    /\ spc' = "l100"
    /\ UNCHANGED <<chatVars, gameVars, serverVars, legacyVars, frameVars, MAX_PLAYERS, room, ghostVars, netVars, running, apc, todo>>

\* stop(): list(self.sessions.values())
StopListSessions ==
    /\ spc = "l100"
    /\ todo' = Registered(Cur)
    /\ spc' = "l101"
    /\ UNCHANGED <<chatVars, gameVars, serverVars, legacyVars, frameVars, MAX_PLAYERS, room, ghostVars, netVars, running, listener, apc>>

\* stop(): sess.close() for the next session of the list.
StopCloseSession(s) ==
    /\ spc = "l101"
    /\ s \in todo
    /\ \A i, j \in DOMAIN SessionSeq :
          (SessionSeq[j] = s /\ i < j) => SessionSeq[i] \notin todo
    /\ sess' = [sess EXCEPT ![s].conn = "closed"]
    /\ todo' = todo \ {s}
    /\ UNCHANGED <<chatVars, gameVars, serverVars, legacyVars, frameVars, MAX_PLAYERS, room, ghostVars, sessions, peer, pc, local, joined,
                   reply, outbox, running, listener, apc, spc>>

\* stop(): self.sessions.clear()
StopClearSessions ==
    /\ spc = "l101"
    /\ todo = {}
    /\ sessions' = <<>>
    /\ spc' = "done"
    /\ UNCHANGED <<chatVars, gameVars, serverVars, legacyVars, frameVars, MAX_PLAYERS, room, ghostVars, sess, peer, pc, local, joined,
                   reply, outbox, running, listener, apc, todo>>

NextStop ==
    \/ AcceptTest
    \/ \E s \in Sessions : AcceptConn(s)
    \/ AcceptFails
    \/ \E s \in Sessions : AcceptRegister(s)
    \/ \E s \in Sessions : SessionStart(s)
    \/ \E s \in Sessions : ClientClose(s)
    \/ \E s \in Sessions : LoopExit(s)
    \/ StopClearRunning
    \/ StopCloseListener
    \/ StopListSessions
    \/ \E s \in Sessions : StopCloseSession(s)
    \/ StopClearSessions

SpecStop == InitNet /\ [][NextStop]_vars

\* stop() has returned and every thread has run to its end.
AllStopped ==
    /\ spc = "done"
    /\ apc = "done"
    /\ \A s \in Sessions : pc[s] \in {"none", "done"}

\* C19: once stop() has returned and all threads have ended, every socket
\* that was accepted is closed and the session registry is empty, whatever
\* the interleaving of stop() with the accept loop.
C19_StopLeavesNothing ==
    AllStopped =>
        /\ \A s \in Sessions : sess[s].conn \in {"none", "closed"}
        /\ sessions = <<>>

\* ------------------------------------------------------------------------
\* Server start: NetworkServer.start and the legacy GameServer.start are
\* called on servers that are not running, and the bind may fail; once
\* NetworkServer runs, its accept loop and stop() go on as in SpecStop
\* (SpecStart)
\* ------------------------------------------------------------------------
\* Mutant of NetStart: _running is set before the socket is bound.
NetStart_running_first(bind_ok) ==
    /\ nstart # "returned"
    /\ spc = "none"
    /\ running' = TRUE
    /\ IF bind_ok
       THEN listener' = "open" /\ apc' = "while" /\ nstart' = "returned"
       ELSE listener' = "unbound" /\ nstart' = "raised" /\ UNCHANGED apc
    /\ UNCHANGED <<chatVars, gameVars, gserver, out, legacyVars, frameVars, MAX_PLAYERS, room, ghostVars, netVars,
                   spc, todo>>

\* NetworkServer.start: socket, setsockopt, bind, listen, _running.set(),
\* the accept thread is started.  An exception of bind leaves the method
\* from the bind line.
NetStart(bind_ok) ==
    /\ nstart # "returned"
    /\ spc = "none"
    /\ IF bind_ok
       THEN listener' = "open" /\ running' = TRUE /\ apc' = "while" /\ nstart' = "returned"
       ELSE listener' = "unbound" /\ nstart' = "raised" /\ UNCHANGED <<running, apc>>
    /\ UNCHANGED <<chatVars, gameVars, gserver, out, legacyVars, frameVars, MAX_PLAYERS, room, ghostVars, netVars,
                   spc, todo>>

\* GameServer.start: the same steps inside try; `except Exception` logs and
\* returns False.
GameStart(bind_ok) ==
    /\ gserver.ret # "True"
    /\ gserver' = IF bind_ok
                  THEN [running |-> TRUE, socket |-> "listening",
                        accept_thread |-> "started", ret |-> "True"]
                  ELSE [gserver EXCEPT !.socket = "unbound", !.ret = "False"]
    /\ UNCHANGED <<chatVars, gameVars, nstart, out, legacyVars, frameVars, stopVars, MAX_PLAYERS, room, ghostVars,
                   netVars>>

InitStart ==
    /\ MAX_PLAYERS \in MaxPlayersChoices
    /\ \A m \in MaxPlayersChoices : MAX_PLAYERS <= m
    /\ room = GameRoom0
    /\ added = {}
    /\ drawn = <<>>
    /\ round_solved = FALSE
    /\ sent = [s \in Sessions |-> <<>>]
    /\ wire = [s \in Sessions |-> <<>>]
    /\ buf = [s \in Sessions |-> <<>>]
    /\ handed = [s \in Sessions |-> <<>>]
    /\ running = FALSE
    /\ listener = "none"
    /\ apc = "none"
    /\ spc = "none"
    /\ todo = {}
    /\ sess = [s \in Sessions |-> ClientSession0]
    /\ sessions = <<>>
    /\ peer = [s \in Sessions |-> "up"]
    /\ pc = [s \in Sessions |-> "none"]
    /\ local = [s \in Sessions |-> NoLocal]
    /\ joined = [s \in Sessions |-> {}]
    /\ reply = [s \in Sessions |-> NoReply]
    /\ outbox = <<>>
    /\ InitChat
    /\ InitGame
    /\ nstart = "none"
    /\ gserver = GameServer0
    /\ out = [v \in Variants |-> <<>>]
    /\ lroom = Room0(DefaultMaxPlayers)
    /\ lplayers = [p \in PlayerIds |-> Player0]

NextStart ==
    \/ \E bind_ok \in BOOLEAN : NetStart(bind_ok)
    \/ \E bind_ok \in BOOLEAN : GameStart(bind_ok)
    \/ AcceptTest
    \/ \E s \in Sessions : AcceptConn(s)
    \/ AcceptFails
    \/ \E s \in Sessions : AcceptRegister(s)
    \/ \E s \in Sessions : SessionStart(s)
    \/ \E s \in Sessions : ClientClose(s)
    \/ \E s \in Sessions : LoopExit(s)
    \/ StopClearRunning
    \/ StopCloseListener
    \/ StopListSessions
    \/ \E s \in Sessions : StopCloseSession(s)
    \/ StopClearSessions

SpecStart == InitStart /\ [][NextStart]_vars

\* C26: a start whose bind fails is reported to the caller (NetworkServer:
\* the exception leaves start; GameServer: start returns False) and neither
\* marks the server running nor starts an accept thread; a server on which
\* no start has succeeded is not running and has no accept thread.
C26_BindFailureSurfaced ==
    /\ []((nstart # "returned" => ~running /\ apc = "none")
          /\ (gserver.ret # "True" => ~gserver.running /\ gserver.accept_thread = "none"))
    /\ [][/\ NetStart(FALSE) => (nstart' = "raised" /\ ~running' /\ apc' = "none")
          /\ GameStart(FALSE) => (gserver'.ret = "False" /\ ~gserver'.running
                                  /\ gserver'.accept_thread = "none")]_vars

\* Both servers have had a bind failure, and stop() was then called on the
\* NetworkServer.
C26_Witness ==
    /\ nstart = "raised"
    /\ gserver.ret = "False"
    /\ spc = "done"

\* ------------------------------------------------------------------------
\* What the three servers write to one client socket (SpecWire)
\* ------------------------------------------------------------------------
\* The string values of the messages written: one holds a newline.
Payloads == {<<"a">>, <<"a", NL, "b">>}
\* At most MaxSent messages are written to a socket.
MaxSent == 2

\* json.dumps of an object with one string value: control characters in
\* strings are escaped, the newline as the two characters \ and n.
RECURSIVE Escape(_)
Escape(t) ==
    IF t = <<>> THEN <<>>
    ELSE (IF Head(t) = NL THEN <<"\\", "n">> ELSE <<Head(t)>>) \o Escape(Tail(t))

dumps(payload) == <<"{">> \o Escape(payload) \o <<"}">>

\* NetworkServer._send: msg.to_json() + "\n"; ChatServer._broadcast:
\* json.dumps(obj) + "\n"; GameServer._send_message: json.dumps(message).
Encode(v, payload) ==
    CASE v = "NetworkServer" -> dumps(payload) \o <<NL>>
      [] v = "ChatServer" -> dumps(payload) \o <<NL>>
      [] OTHER -> dumps(payload)

Written(b) == Cardinality({i \in DOMAIN b : b[i] = "{"})

\* One message is written to the client socket of server v.
Write(v, payload) ==
    /\ Written(out[v]) < MaxSent
    /\ out' = [out EXCEPT ![v] = @ \o Encode(v, payload)]
    /\ UNCHANGED <<chatVars, gameVars, nstart, gserver, legacyVars, frameVars, stopVars, MAX_PLAYERS, room,
                   ghostVars, netVars>>

NextWire == \E v \in Variants, payload \in Payloads : Write(v, payload)

SpecWire == InitNet /\ [][NextWire]_vars

\* One JSON object: an opening brace, a body without braces or raw newline,
\* a closing brace.
IsObject(f) ==
    /\ Len(f) >= 2
    /\ f[1] = "{"
    /\ f[Len(f)] = "}"
    /\ \A i \in 2..(Len(f) - 1) : f[i] \notin {"{", "}", NL}

\* The bytes are a sequence of frames, each one JSON object followed by one
\* newline.
RECURSIVE Framed(_)
Framed(b) ==
    IF b = <<>> THEN TRUE
    ELSE LET nl == {i \in DOMAIN b : b[i] = NL}
         IN  /\ nl # {}
             /\ LET k == CHOOSE i \in nl : \A j \in nl : i <= j
                IN  /\ IsObject(SubSeq(b, 1, k - 1))
                    /\ Framed(SubSeq(b, k + 1, Len(b)))

\* C27 (as claimed): what each server has written to a socket is a sequence
\* of frames, one JSON object and one newline each.
C27_EveryWriteIsOneFrame == \A v \in Variants : Framed(out[v])

\* ------------------------------------------------------------------------
\* NetworkServer: session threads interleaving inside add_player and
\* submit_guess (SpecRace)
\*
\* Every session has its own thread (_accept_loop starts one per connection)
\* and no lock guards the room, so the statements of add_player and
\* submit_guess run by two threads interleave.  pc[s] is the line of
\* src/server/game/__init__.py that thread s executes next.  No client closes
\* its socket here, so every write succeeds.  The handlers that replace the
\* round run only while no thread is inside a handler.  A client connects
\* once, joins once, and guesses once, after its join was answered and the
\* game was started.
\* ------------------------------------------------------------------------

AllIdle == \A x \in Sessions : pc[x] \in {"none", "idle"}

At(s, l) == pc[s] = l
Goto(s, l) == pc' = [pc EXCEPT ![s] = l]
\* add_player returns to line 167 and submit_guess to line 194 of
\* src/server/network/__init__.py.
Return(s, l, ok, gained) ==
    /\ local' = [local EXCEPT ![s].ok = ok, ![s].gained = gained]
    /\ Goto(s, l)

\* MSG_CONNECT of a session that has not connected yet.
RaceConnect(s, player_id, name) ==
    /\ sess[s].player_id = None
    /\ Connect(s, player_id, name)

\* MSG_JOIN_ROOM up to the call of add_player.
join_room(s) ==
    /\ At(s, "idle")
    /\ sess[s].player_id # None /\ sess[s].player_name # None
    /\ sess[s].room_id = None
    /\ sess' = [sess EXCEPT ![s].room_id = "default"]
    /\ local' = [local EXCEPT ![s] = NoLocal]
    /\ Goto(s, "add_74")
    /\ UNCHANGED <<chatVars, gameVars, serverVars, legacyVars, frameVars, stopVars, MAX_PLAYERS, room, ghostVars, sessions, peer, joined, reply, outbox>>

\* if player_id in self.state.players: return False
add_player_74(s) ==
    /\ At(s, "add_74")
    /\ IF sess[s].player_id \in DOMAIN room.players
       THEN Return(s, "net_167", FALSE, 0)
       ELSE Goto(s, "add_76") /\ UNCHANGED local
    /\ UNCHANGED <<chatVars, gameVars, serverVars, legacyVars, frameVars, stopVars, MAX_PLAYERS, room, ghostVars, sess, sessions, peer, joined, reply, outbox>>

\* if len(self.state.players) >= MAX_PLAYERS: return False
add_player_76(s) ==
    /\ At(s, "add_76")
    /\ IF Cardinality(DOMAIN room.players) >= MAX_PLAYERS
       THEN Return(s, "net_167", FALSE, 0)
       ELSE Goto(s, "add_78") /\ UNCHANGED local
    /\ UNCHANGED <<chatVars, gameVars, serverVars, legacyVars, frameVars, stopVars, MAX_PLAYERS, room, ghostVars, sess, sessions, peer, joined, reply, outbox>>

\* self.state.players[player_id] = PlayerState(...)
add_player_78(s) ==
    /\ At(s, "add_78")
    /\ room' = [room EXCEPT !.players = Put(@, sess[s].player_id, PlayerState(sess[s].player_name))]
    /\ Goto(s, "add_79")
    /\ UNCHANGED <<chatVars, gameVars, serverVars, legacyVars, frameVars, stopVars, MAX_PLAYERS, ghostVars, sess, sessions, peer, local, joined, reply, outbox>>

\* self._rebuild_drawer_cycle(); return True
add_player_79(s, order) ==
    /\ At(s, "add_79")
    /\ room' = _rebuild_drawer_cycle(room, order)
    /\ Return(s, "net_167", TRUE, 0)
    /\ UNCHANGED <<chatVars, gameVars, serverVars, legacyVars, frameVars, stopVars, MAX_PLAYERS, ghostVars, sess, sessions, peer, joined, reply, outbox>>

\* MSG_JOIN_ROOM after add_player returned: the ack and the broadcast.
join_room_ack(s) ==
    /\ At(s, "net_167")
    /\ reply' = [reply EXCEPT ![s] = Ack(local[s].ok)]
    /\ joined' = [joined EXCEPT ![s] = IF local[s].ok THEN @ \cup {sess[s].player_id} ELSE @]
    /\ local' = [local EXCEPT ![s] = NoLocal]
    /\ Goto(s, "idle")
    /\ UNCHANGED <<chatVars, gameVars, serverVars, legacyVars, frameVars, stopVars, MAX_PLAYERS, room, ghostVars, sess, sessions, peer, outbox>>

\* MSG_START_GAME
RaceStartGame(s, order, word) ==
    /\ At(s, "idle")
    /\ AllIdle
    /\ room' = start_game(room, order, word).room
    /\ UNCHANGED <<chatVars, gameVars, serverVars, legacyVars, frameVars, stopVars, MAX_PLAYERS, ghostVars, netVars>>
\* MSG_GUESS up to the call of submit_guess.
guess(s, text) ==
    /\ At(s, "idle")
    /\ sess[s].player_id # None
    /\ reply[s].type = "ack" /\ room.is_started
    /\ local' = [local EXCEPT ![s] = [NoLocal EXCEPT !.text = text]]
    /\ Goto(s, "guess_131")
    /\ UNCHANGED <<chatVars, gameVars, serverVars, legacyVars, frameVars, stopVars, MAX_PLAYERS, room, ghostVars, sess, sessions, peer, joined, reply, outbox>>

\* A test of submit_guess that returns (False, 0) when `reject` holds.
GuessTest(s, l, reject, next) ==
    /\ At(s, l)
    /\ IF reject
       THEN Return(s, "net_194", FALSE, 0)
       ELSE Goto(s, next) /\ UNCHANGED local
    /\ UNCHANGED <<chatVars, gameVars, serverVars, legacyVars, frameVars, stopVars, MAX_PLAYERS, room, ghostVars, sess, sessions, peer, joined, reply, outbox>>

\* A statement of submit_guess that leaves the room as R.
GuessWrite(s, l, R, next) ==
    /\ At(s, l)
    /\ room' = R
    /\ Goto(s, next)
    /\ UNCHANGED <<chatVars, gameVars, serverVars, legacyVars, frameVars, stopVars, MAX_PLAYERS, ghostVars, sess, sessions, peer, local, joined, reply, outbox>>

\* A statement of submit_guess that reads v into a local.
GuessRead(s, l, loc, next) ==
    /\ At(s, l)
    /\ local' = [local EXCEPT ![s] = loc]
    /\ Goto(s, next)
    /\ UNCHANGED <<chatVars, gameVars, serverVars, legacyVars, frameVars, stopVars, MAX_PLAYERS, room, ghostVars, sess, sessions, peer, joined, reply, outbox>>

\* if not rnd.is_active: return False, 0
submit_guess_131(s) ==
    GuessTest(s, "guess_131", ~room.current_round.is_active, "guess_133")

\* if player_id == rnd.drawer_id: return False, 0
submit_guess_133(s) ==
    GuessTest(s, "guess_133", sess[s].player_id = room.current_round.drawer_id, "guess_135")

\* if player_id not in self.state.players: return False, 0
submit_guess_135(s) ==
    GuessTest(s, "guess_135", sess[s].player_id \notin DOMAIN room.players, "guess_137")

\* if rnd.solved_by: return False, 0
submit_guess_137(s) ==
    GuessTest(s, "guess_137", room.current_round.solved_by # None, "guess_140")

\* rnd.guesses[player_id] = guess_text
submit_guess_140(s) ==
    GuessWrite(s, "guess_140",
               [room EXCEPT !.current_round.guesses = Put(@, sess[s].player_id, local[s].text)],
               "guess_141")

\* if normalize(guess_text) == normalize(rnd.word or ""): ... return False, 0
submit_guess_141(s) ==
    GuessTest(s, "guess_141",
              _normalize(local[s].text) # _normalize(room.current_round.word), "guess_142")

\* rnd.solved_by = player_id
submit_guess_142(s) ==
    GuessWrite(s, "guess_142", [room EXCEPT !.current_round.solved_by = sess[s].player_id],
               "guess_143")

\* gained = self._score_for_first_solver(rnd)
submit_guess_143(s, left) ==
    GuessRead(s, "guess_143",
              [local[s] EXCEPT !.gained = _score_for_first_solver(room.current_round, left)],
              "guess_144")

\* self.state.players[player_id].score += gained: the load of the score.
submit_guess_144(s) ==
    /\ sess[s].player_id \in DOMAIN room.players
    /\ GuessRead(s, "guess_144",
                 [local[s] EXCEPT !.tmp = room.players[sess[s].player_id].score], "guess_144w")

\* ... and the store of the sum.
submit_guess_144w(s) ==
    /\ sess[s].player_id \in DOMAIN room.players
    /\ GuessWrite(s, "guess_144w",
                  [room EXCEPT !.players[sess[s].player_id].score = local[s].tmp + local[s].gained],
                  "guess_146")

\* if rnd.drawer_id and rnd.drawer_id in self.state.players:
submit_guess_146(s) ==
    /\ At(s, "guess_146")
    /\ LET d == room.current_round.drawer_id
       IN  Goto(s, IF d # None /\ d \in DOMAIN room.players THEN "guess_147" ELSE "guess_149")
    /\ UNCHANGED <<chatVars, gameVars, serverVars, legacyVars, frameVars, stopVars, MAX_PLAYERS, room, ghostVars, sess, sessions, peer, local, joined, reply, outbox>>

\* self.state.players[rnd.drawer_id].score += gained // 2: the load.
submit_guess_147(s) ==
    /\ room.current_round.drawer_id \in DOMAIN room.players
    /\ GuessRead(s, "guess_147",
                 [local[s] EXCEPT !.tmp = room.players[room.current_round.drawer_id].score],
                 "guess_147w")

\* ... and the store of the sum.
submit_guess_147w(s) ==
    /\ room.current_round.drawer_id \in DOMAIN room.players
    /\ GuessWrite(s, "guess_147w",
                  [room EXCEPT !.players[room.current_round.drawer_id].score =
                                   local[s].tmp + (local[s].gained \div 2)],
                  "guess_149")

\* self._finish_round(); return True, gained
submit_guess_149(s) ==
    /\ At(s, "guess_149")
    /\ room' = _finish_round(room)
    /\ Return(s, "net_194", TRUE, local[s].gained)
    /\ UNCHANGED <<chatVars, gameVars, serverVars, legacyVars, frameVars, stopVars, MAX_PLAYERS, ghostVars, sess, sessions, peer, joined, reply, outbox>>

\* MSG_GUESS after submit_guess returned: guess_result and the broadcast.
guess_result(s) ==
    /\ At(s, "net_194")
    /\ reply' = [reply EXCEPT ![s] = [type |-> "guess_result", ok |-> local[s].ok,
                                       score |-> local[s].gained]]
    /\ local' = [local EXCEPT ![s] = NoLocal]
    /\ Goto(s, "idle")
    /\ UNCHANGED <<chatVars, gameVars, serverVars, legacyVars, frameVars, stopVars, MAX_PLAYERS, room, ghostVars, sess, sessions, peer, joined, outbox>>

\* The ids the clients connect with, up to renaming: the k-th session uses
\* one of the first k ids.
PlayerIdSeq == <<"p1", "p2", "p3">>
RaceIds(s) ==
    {PlayerIdSeq[j] : j \in {i \in DOMAIN PlayerIdSeq :
                                \E k \in DOMAIN SessionSeq : SessionSeq[k] = s /\ i <= k}}

NextRace ==
    \/ \E s \in Sessions : Accept(s, Len(SessionSeq))
    \/ \E s \in Sessions : \E player_id \in RaceIds(s), name \in ClientNames :
          RaceConnect(s, player_id, name)
    \/ \E s \in Sessions : join_room(s)
    \/ \E s \in Sessions : add_player_74(s)
    \/ \E s \in Sessions : add_player_76(s)
    \/ \E s \in Sessions : add_player_78(s)
    \/ \E s \in Sessions, order \in Orders(DOMAIN room.players) : add_player_79(s, order)
    \/ \E s \in Sessions : join_room_ack(s)
    \/ \E s \in Sessions, order \in Orders(DOMAIN room.players), word \in words :
          RaceStartGame(s, order, word)
    \/ \E s \in Sessions, text \in Texts : guess(s, text)
    \/ \E s \in Sessions : submit_guess_131(s)
    \/ \E s \in Sessions : submit_guess_133(s)
    \/ \E s \in Sessions : submit_guess_135(s)
    \/ \E s \in Sessions : submit_guess_137(s)
    \/ \E s \in Sessions : submit_guess_140(s)
    \/ \E s \in Sessions : submit_guess_141(s)
    \/ \E s \in Sessions : submit_guess_142(s)
    \/ \E s \in Sessions, left \in RaceLeft : submit_guess_143(s, left)
    \/ \E s \in Sessions : submit_guess_144(s)
    \/ \E s \in Sessions : submit_guess_144w(s)
    \/ \E s \in Sessions : submit_guess_146(s)
    \/ \E s \in Sessions : submit_guess_147(s)
    \/ \E s \in Sessions : submit_guess_147w(s)
    \/ \E s \in Sessions : submit_guess_149(s)
    \/ \E s \in Sessions : guess_result(s)

SpecRace == InitRoom /\ [][NextRace]_vars
\* C2 (as claimed): when two session threads handle join_room for the same
\* new player id, exactly one of them is sent ack ok:true and the other ack
\* ok:false.  No player is removed in SpecRace and a session joins once, so
\* two sessions of one player id are never both sent ok:true, and they are
\* both sent ok:false only when the id is in the player map.
C2_ConcurrentJoinOneSucceeds ==
    \A s, t \in Sessions :
        (/\ s # t
         /\ sess[s].player_id # None
         /\ sess[s].player_id = sess[t].player_id
         /\ reply[s].type = "ack"
         /\ reply[t].type = "ack")
        => /\ ~(reply[s].ok /\ reply[t].ok)
           /\ (~reply[s].ok /\ ~reply[t].ok) => sess[s].player_id \in Players

\* C3 (as claimed): the capacity check and the insertion of add_player act
\* as one atomic unit, so the room never holds more than MAX_PLAYERS players.
C3_CapacityNeverExceeded == Cardinality(Players) <= MAX_PLAYERS

\* C4 (as claimed): when two non-drawer members submit the correct word for
\* the same round from two threads, at most one of them receives guess_result
\* ok:true with a non-zero score, everyone who receives it is the recorded
\* solved_by, and at most one thread has added the drawer's bonus.
Solvers == {s \in Sessions : reply[s].type = "guess_result" /\ reply[s].ok /\ reply[s].score # 0}

\* The threads that have run the store of line 147 for the round.
PastBonus ==
    Solvers \cup {s \in Sessions : pc[s] = "guess_149" \/ (pc[s] = "net_194" /\ local[s].ok)}

C4_OneSolverPerRound ==
    /\ Cardinality(Solvers) <= 1
    /\ \A s \in Solvers : Rnd.solved_by = sess[s].player_id
    /\ Rnd.drawer_id \in Players => Cardinality(PastBonus) <= 1

\* ------------------------------------------------------------------------
\* ChatServer (network/chat_server.py): line-delimited JSON, one handler
\* thread per connection (SpecChat).  One iteration of the read loop, from
\* recv to the last line of the chunk, is one step.
\* ------------------------------------------------------------------------
\* The lines a chat client writes, by the bytes that tell them apart:
JoinALine == <<"j", "a">>   \* {"type":"join_room","data":{"room":"a"}}
JoinLine == <<"j", "o">>    \* {"type":"join_room"}
ChatLine == <<"c", "h">>    \* {"type":"chat","data":{"text":"hi"}}
LeaveLine == <<"l", "v">>   \* {"type":"leave_room"}
ListLine == <<"[", "]">>    \* [1]
ChatClientLines == {JoinALine, JoinLine, ChatLine, LeaveLine, ListLine}

\* The clients write at most MaxChatLines lines in all.
MaxChatLines == 3

\* json.loads(line.decode(...)): the value, or NoObject when it raises.  No
\* part of a line cut in two is a JSON text.
NoObject == [kind |-> "invalid", type |-> None, room |-> None]

loads(line) ==
    CASE line = JoinALine -> [kind |-> "object", type |-> "join_room", room |-> "a"]
      [] line = JoinLine -> [kind |-> "object", type |-> "join_room", room |-> None]
      [] line = ChatLine -> [kind |-> "object", type |-> "chat", room |-> None]
      [] line = LeaveLine -> [kind |-> "object", type |-> "leave_room", room |-> None]
      [] line = ListLine -> [kind |-> "list", type |-> None, room |-> None]
      [] OTHER -> NoObject

\* data.split(b"\n"): the pieces between the newlines of one chunk, the part
\* after the last newline included.
RECURSIVE split(_)
split(data) ==
    LET i == Index(data, NL)
    IN  IF i = 0 THEN <<data>>
        ELSE <<SubSeq(data, 1, i - 1)>> \o split(SubSeq(data, i + 1, Len(data)))

\* _remove_conn(room_id, conn)
remove_conn(R, room_id, conn) ==
    IF room_id = None THEN R ELSE [R EXCEPT ![room_id] = @ \ {conn}]

\* _broadcast(room_id, obj): sendall to every connection of the room; those
\* whose sendall raises (failing) are removed from that room.
ChatBroadcast(R, room_id, failing) == [R EXCEPT ![room_id] = @ \ failing]

\* The branches of _handle_client on msg_type, on the state H of the handler:
\* the rooms, the local room_id, the lines decoded, whether the loop was left
\* by an exception.
Dispatch(H, conn, obj, failing) ==
    CASE obj.type = "join_room" ->
            LET rid == IF obj.room # None THEN obj.room ELSE "lobby"
            IN  [H EXCEPT !.room_id = rid,
                          !.rooms = ChatBroadcast([@ EXCEPT ![rid] = @ \cup {conn}],
                                                  rid, failing)]
      [] obj.type = "chat" ->
            LET rid == IF obj.room # None THEN obj.room
                       ELSE IF H.room_id # None THEN H.room_id ELSE "lobby"
            IN  [H EXCEPT !.rooms = ChatBroadcast(@, rid, failing)]
      [] obj.type = "leave_room" ->
            LET rid == IF obj.room # None THEN obj.room ELSE H.room_id
            IN  [H EXCEPT !.rooms = ChatBroadcast(remove_conn(@, rid, conn),
                                                  IF rid # None THEN rid ELSE "lobby",
                                                  failing)]
      [] OTHER -> H

\* `for line in data.split(b"\n")`: empty pieces and pieces json.loads
\* rejects are skipped; obj.get of a value that is no object raises, which
\* ends the read loop.
RECURSIVE HandleLines(_, _, _, _)
HandleLines(H, conn, pieces, failing) ==
    IF pieces = <<>> \/ H.raised THEN H
    ELSE LET line == Head(pieces)
             obj == loads(line)
         IN  IF line = <<>> \/ obj = NoObject
             THEN HandleLines(H, conn, Tail(pieces), failing)
             ELSE IF obj.kind # "object"
             THEN [H EXCEPT !.lines = Append(@, line), !.raised = TRUE]
             ELSE HandleLines(Dispatch([H EXCEPT !.lines = Append(@, line)],
                                       conn, obj, failing),
                              conn, Tail(pieces), failing)

\* The finally clause of _handle_client: the connection is removed from the
\* room the local room_id names, that room is told, the socket is closed.
Finally(R, room_id, conn, failing) ==
    IF room_id # None
    THEN ChatBroadcast(remove_conn(R, room_id, conn), room_id, failing)
    ELSE R

\* The connections a sendall raises on: those the server has closed.  On one
\* whose client has closed, sendall raises or not.
ClosedConns == {d \in Conns : handler[d].pc = "done"}
MayFail == {d \in Conns : handler[d].pc = "recv" /\ handler[d].peer = "closed"}

\* _accept_loop: accept() returns a connection and its handler thread starts.
ChatAccept(c) ==
    /\ handler[c].pc = "none"
    /\ handler' = [handler EXCEPT ![c].pc = "recv"]
    /\ UNCHANGED <<rooms, gameVars, serverVars, legacyVars, frameVars, stopVars, MAX_PLAYERS,
                   room, ghostVars, netVars>>

\* The client writes a line.
ChatClientSend(c, line) ==
    /\ handler[c].pc = "recv"
    /\ handler[c].peer = "up"
    /\ FrameCount(handler["k1"].sent) + FrameCount(handler["k2"].sent) < MaxChatLines
    /\ handler' = [handler EXCEPT ![c].sent = @ \o line \o <<NL>>,
                                  ![c].wire = @ \o line \o <<NL>>]
    /\ UNCHANGED <<rooms, gameVars, serverVars, legacyVars, frameVars, stopVars, MAX_PLAYERS,
                   room, ghostVars, netVars>>

\* The client closes its socket.
ChatClientClose(c) ==
    /\ handler[c].pc = "recv"
    /\ handler[c].peer = "up"
    /\ handler' = [handler EXCEPT ![c].peer = "closed"]
    /\ UNCHANGED <<rooms, gameVars, serverVars, legacyVars, frameVars, stopVars, MAX_PLAYERS,
                   room, ghostVars, netVars>>

\* One iteration of the read loop: recv returns the first n bytes on the
\* wire and every piece of that chunk is handled; after an exception the
\* finally clause runs.
ChatRecv(c, n, fail) ==
    /\ handler[c].pc = "recv"
    /\ n \in 1..Len(handler[c].wire)
    /\ fail \subseteq MayFail
    /\ LET failing == ClosedConns \cup fail
           H == HandleLines([rooms |-> rooms, room_id |-> handler[c].room_id,
                             lines |-> handler[c].lines, raised |-> FALSE],
                            c, split(SubSeq(handler[c].wire, 1, n)), failing)
       IN  /\ rooms' = IF H.raised THEN Finally(H.rooms, H.room_id, c, failing)
                       ELSE H.rooms
           /\ handler' = [handler EXCEPT
                             ![c].wire = SubSeq(@, n + 1, Len(@)),
                             ![c].room_id = H.room_id,
                             ![c].lines = H.lines,
                             ![c].pc = IF H.raised THEN "done" ELSE "recv"]
    /\ UNCHANGED <<gameVars, serverVars, legacyVars, frameVars, stopVars, MAX_PLAYERS,
                   room, ghostVars, netVars>>

\* recv returns b"" after the client closed: the loop ends and the finally
\* clause runs.
ChatEof(c, fail) ==
    /\ handler[c].pc = "recv"
    /\ handler[c].peer = "closed"
    /\ handler[c].wire = <<>>
    /\ fail \subseteq MayFail
    /\ rooms' = Finally(rooms, handler[c].room_id, c, ClosedConns \cup fail)
    /\ handler' = [handler EXCEPT ![c].pc = "done"]
    /\ UNCHANGED <<gameVars, serverVars, legacyVars, frameVars, stopVars, MAX_PLAYERS,
                   room, ghostVars, netVars>>

NextChat ==
    \/ \E c \in Conns : ChatAccept(c)
    \/ \E c \in Conns, line \in ChatClientLines : ChatClientSend(c, line)
    \/ \E c \in Conns : ChatClientClose(c)
    \/ \E c \in Conns, n \in 1..(3 * MaxChatLines), fail \in SUBSET Conns : ChatRecv(c, n, fail)
    \/ \E c \in Conns, fail \in SUBSET Conns : ChatEof(c, fail)

SpecChat == InitNet /\ [][NextChat]_vars

\* The handler of c has taken all it will take of what the client wrote.
ChatSettled(c) ==
    handler[c].pc = "done" \/ (handler[c].pc = "recv" /\ handler[c].wire = <<>>)

\* The newline-terminated lines of a byte stream that are JSON texts, up to
\* the first that is not an object.
RECURSIVE CompleteLines(_)
CompleteLines(b) ==
    LET i == Index(b, NL)
        line == SubSeq(b, 1, i - 1)
    IN  IF i = 0 THEN <<>>
        ELSE IF loads(line) = NoObject THEN CompleteLines(SubSeq(b, i + 1, Len(b)))
        ELSE IF loads(line).kind # "object" THEN <<line>>
        ELSE <<line>> \o CompleteLines(SubSeq(b, i + 1, Len(b)))

\* C32: however the bytes a client wrote are cut into recv() chunks, the
\* ChatServer handler decodes and dispatches every complete
\* newline-terminated JSON line of them exactly once and in order, a line
\* cut across two reads included.
C32_EveryLineProcessedOnce ==
    \A c \in Conns :
        ChatSettled(c) => handler[c].lines = CompleteLines(handler[c].sent)

\* C33: once the ChatServer handler of a connection has finished, the
\* connection is registered in no room, whatever the client sent, joins of
\* more than one room included.
C33_FinishedConnectionInNoRoom ==
    \A c \in Conns :
        handler[c].pc = "done" => \A r \in ChatRoomIds : c \notin rooms[r]

\* ------------------------------------------------------------------------
\* The legacy GameServer (network/server.py): one handler thread per
\* connection (SpecGame).  Its Player and Room are the classes that
\* `from src.server.models import Player, Room` binds, the dataclasses of
\* models/__init__.py: Room.add_player there takes (player_id, name), and
\* Player has no room_id.
\* ------------------------------------------------------------------------
\* The ids uuid.uuid4() returns, in the order it returns them.
Uuids == <<"u1", "u2", "u3", "u4", "u5", "u6">>
\* A connect is handled in the model only while fewer than MaxUuids players
\* were created.
MaxUuids == 4

\* The messages a client writes, one to a read: by type, the connect also
\* with data that is not an object, and bytes that are not one JSON text.
GameMessages == {"connect", "connect_list", "draw", "guess", "start_game", "chat", "not_json"}

\* uuid4 never returns an id twice, and no entry of server.players is ever
\* deleted (GameRemovePlayer), so the entries count the ids handed out.
uuid4(players) == Uuids[Cardinality(DOMAIN players) + 1]

GRes(players, members, ret, raised) ==
    [players |-> players, room |-> members, ret |-> ret, raised |-> raised]

\* _process_message(message, client_socket, player_id).  connect: the Player
\* is stored in server.players, then default_room.add_player(player) raises
\* TypeError (one argument for two parameters) before anything is returned.
\* draw, guess, start_game, chat: nothing without a player_id; with one,
\* player.room_id raises AttributeError.
process_message(players, members, msg, conn, player_id) ==
    CASE msg = "connect" ->
            LET id == uuid4(players)
            IN  GRes([x \in DOMAIN players \cup {id} |->
                         IF x = id THEN conn ELSE players[x]],
                     members, player_id, TRUE)
      [] msg = "connect_list" -> GRes(players, members, player_id, TRUE)
      [] OTHER ->
            IF player_id # None /\ player_id \in DOMAIN players
            THEN GRes(players, members, player_id, TRUE)
            ELSE GRes(players, members, player_id, FALSE)

\* _remove_player(player_id): of a stored player, player.room_id raises
\* AttributeError before the room or server.players is touched.
GameRemovePlayer(players, members, player_id) ==
    IF player_id \in DOMAIN players
    THEN GRes(players, members, None, TRUE)
    ELSE GRes(players, members, None, FALSE)

\* _accept_connections: accept() returns a connection and its handler thread
\* starts.
GameAccept(c) ==
    /\ client[c].pc = "none"
    /\ client' = [client EXCEPT ![c].pc = "recv"]
    /\ UNCHANGED <<gplayers, default_room, chatVars, serverVars, legacyVars, frameVars,
                   stopVars, MAX_PLAYERS, room, ghostVars, netVars>>

\* The client closes its socket.
GameClientClose(c) ==
    /\ client[c].pc = "recv"
    /\ client[c].peer = "up"
    /\ client' = [client EXCEPT ![c].peer = "closed"]
    /\ UNCHANGED <<gplayers, default_room, chatVars, serverVars, legacyVars, frameVars,
                   stopVars, MAX_PLAYERS, room, ghostVars, netVars>>

\* One iteration of the read loop of _handle_client: recv returns a message
\* the client wrote; json.loads of bytes that are not one JSON text raises
\* and the message is dropped; player_id is assigned only when
\* _process_message returns.
GameMessage(c, msg) ==
    /\ client[c].pc = "recv"
    /\ client[c].peer = "up"
    /\ msg = "connect" => Cardinality(DOMAIN gplayers) < MaxUuids
    /\ LET r == IF msg = "not_json"
                THEN GRes(gplayers, default_room, client[c].player_id, TRUE)
                ELSE process_message(gplayers, default_room, msg, c, client[c].player_id)
       IN  /\ gplayers' = r.players
           /\ default_room' = r.room
           /\ client' = [client EXCEPT
                            ![c].player_id = IF r.raised THEN @ ELSE r.ret]
    /\ UNCHANGED <<chatVars, serverVars, legacyVars, frameVars, stopVars, MAX_PLAYERS,
                   room, ghostVars, netVars>>

\* recv returns b"" after the client closed: the loop ends and the finally
\* clause runs, `if player_id: self._remove_player(player_id)`, and the
\* thread ends.
GameEof(c) ==
    /\ client[c].pc = "recv"
    /\ client[c].peer = "closed"
    /\ LET r == IF client[c].player_id # None
                THEN GameRemovePlayer(gplayers, default_room, client[c].player_id)
                ELSE GRes(gplayers, default_room, None, FALSE)
       IN  /\ gplayers' = r.players
           /\ default_room' = r.room
    /\ client' = [client EXCEPT ![c].pc = "done"]
    /\ UNCHANGED <<chatVars, serverVars, legacyVars, frameVars, stopVars, MAX_PLAYERS,
                   room, ghostVars, netVars>>

NextGame ==
    \/ \E c \in Conns : GameAccept(c)
    \/ \E c \in Conns : GameClientClose(c)
    \/ \E c \in Conns, msg \in GameMessages : GameMessage(c, msg)
    \/ \E c \in Conns : GameEof(c)

SpecGame == InitNet /\ [][NextGame]_vars

\* C39: once the handler thread of a connection of the legacy GameServer
\* has finished, no Player created for that connection is left in
\* server.players or in the player map of a room, whatever the client sent.
C39_FinishedConnectionLeavesNoPlayer ==
    \A c \in Conns :
        client[c].pc = "done" =>
            /\ \A id \in DOMAIN gplayers : gplayers[id] # c
            /\ \A id \in default_room : gplayers[id] # c

====
